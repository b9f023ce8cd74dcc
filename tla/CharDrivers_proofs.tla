-------------------------- MODULE CharDrivers_proofs --------------------------
(***************************************************************************)
(* The safety of CharDrivers for every set of drivers, of dynamic majors   *)
(* and of files.  The invariant follows a driver through its life: while   *)
(* it loads it holds what the calls it has passed have taken, and while it *)
(* is unwound it holds only what its cleanup list still has to release.    *)
(***************************************************************************)
EXTENDS CharDrivers, TLAPS

-----------------------------------------------------------------------------
(* What the load and unload code of each driver guarantees by itself: at   *)
(* each call that may fail, what was taken before is what the error path   *)
(* gives back, and the exit function gives back all that init took.  The   *)
(* seven lemmas go through the seven drivers' code call by call.           *)


Elems(s) == {s[i] : i \in 1..Len(s)}

\* What the first k - 1 calls of d's init function take when they succeed.
Taken(d, k) == {InitCode[d][i].call : i \in 1..(k - 1)} \cap Registrations

\* What no path of d gives back.
NeverFreed(d) == IF d = "spi_char" THEN {"memory"} ELSE {}

\* What an error path of d may leave behind.
Forgotten(d) == NeverFreed(d) \cup (IF d = "etx" THEN {"cdev"} ELSE {})

\* What d may be live without, since it does not check the call.
Optional(d) == IF d = "i2c" THEN {"device"} ELSE {}

\* The registrations that refer to the driver's number.
Uses == {"cdev", "device"}

\* A list of releases that gives the number back after all that refers to it.
RegionLast(s) ==
  \A i, j \in 1..Len(s) : s[i] = "region" /\ i < j => s[j] \notin Uses

CallEntry ==
  [call : Calls, fail : {"return", "ignore", "oops", "never"},
   undo : Seq(Registrations)]

\* The k-th call of d's init code comes where it should, and its failure is
\* dealt with.
StepIsSound(d, k) ==
  LET s == InitCode[d][k] IN
  /\ s.fail = "return" =>
       /\ Taken(d, k) \subseteq Elems(s.undo) \cup Forgotten(d)
       /\ RegionLast(s.undo)
  /\ s.fail = "ignore" => {s.call} \cap Registrations \subseteq Optional(d)
  /\ s.fail = "oops"   => d = "spi_char" /\ Taken(d, k) \subseteq {"region"}
  /\ s.call \in Uses   => "region" \in Taken(d, k)
  /\ s.call = "region" => Taken(d, k) \cap (Uses \cup {"region"}) = {}
  /\ d # "etx" => "cdev" \notin Taken(d, k)
  /\ d = "etx" => "device" \notin Taken(d, k)

\* All of d's init code is sound, and its exit code undoes a full load, but
\* for what d never frees.
CodeIsSound(d) ==
  LET all == Taken(d, Len(InitCode[d]) + 1) IN
  /\ InitCode[d] \in Seq(CallEntry)
  /\ ExitCode[d] \in Seq(Registrations)
  /\ \A k \in 1..Len(InitCode[d]) : StepIsSound(d, k)
  /\ RegionLast(ExitCode[d])
  /\ all \ Elems(ExitCode[d]) = NeverFreed(d)
  /\ "region" \in all
  /\ d # "i2c" => "cdev" \in all
  /\ "cdev" \in all /\ d \notin Unprotected => d \in NamesOwner

-----------------------------------------------------------------------------
\* The release lists that occur in the code, as sets, all number-last.
LEMMA CleanupLists ==
  /\ Elems(<<>>) = {}
  /\ Elems(<<"region">>) = {"region"}
  /\ Elems(<<"class", "region">>) = {"class", "region"}
  /\ Elems(<<"device", "class", "region">>) = {"device", "class", "region"}
  /\ Elems(<<"kobj", "region">>) = {"kobj", "region"}
  /\ Elems(<<"bus">>) = {"bus"}
  /\ Elems(<<"region", "bus">>) = {"region", "bus"}
  /\ Elems(<<"cdev", "region">>) = {"cdev", "region"}
  /\ Elems(<<"cdev", "device", "class", "region">>) =
       {"cdev", "device", "class", "region"}
  /\ Elems(<<"cdev", "kobj", "region">>) = {"cdev", "kobj", "region"}
  /\ Elems(<<"device", "class", "cdev", "region">>) =
       {"device", "class", "cdev", "region"}
  /\ Elems(<<"device", "class", "region", "bus">>) =
       {"device", "class", "region", "bus"}
  /\ RegionLast(<<>>)
  /\ RegionLast(<<"region">>)
  /\ RegionLast(<<"class", "region">>)
  /\ RegionLast(<<"device", "class", "region">>)
  /\ RegionLast(<<"kobj", "region">>)
  /\ RegionLast(<<"bus">>)
  /\ RegionLast(<<"region", "bus">>)
  /\ RegionLast(<<"cdev", "region">>)
  /\ RegionLast(<<"cdev", "device", "class", "region">>)
  /\ RegionLast(<<"cdev", "kobj", "region">>)
  /\ RegionLast(<<"device", "class", "cdev", "region">>)
  /\ RegionLast(<<"device", "class", "region", "bus">>)
BY DEF Elems, RegionLast, Uses

\* The calls before each of the first six.
LEMMA FirstIndices ==
  /\ 1..(1 - 1) = {}
  /\ 1..(2 - 1) = {1}
  /\ 1..(3 - 1) = {1, 2}
  /\ 1..(4 - 1) = {1, 2, 3}
  /\ 1..(5 - 1) = {1, 2, 3, 4}
  /\ 1..(6 - 1) = {1, 2, 3, 4, 5}
OBVIOUS

\* A call adds its registration to what has been taken.
LEMMA TakenNext ==
  ASSUME NEW d, NEW k \in Nat \ {0}, NEW m, m = k + 1
  PROVE  Taken(d, m) =
           Taken(d, k) \cup ({InitCode[d][k].call} \cap Registrations)
<1>1. 1..(m - 1) = (1..(k - 1)) \cup {k}
  OBVIOUS
<1> QED BY <1>1 DEF Taken

\* bluetooth_init and bluetooth_exit.
LEMMA BluetoothSound == CodeIsSound("bluetooth")
<1> DEFINE d == "bluetooth"
<1> USE DEF Registrations, Uses
<1>1. InitCode[d] = BluetoothInit /\ ExitCode[d] = BluetoothExit
  BY DEF InitCode, ExitCode
<1>2. /\ Len(BluetoothInit) = 2
      /\ BluetoothInit[1] = Try("region", <<>>)
      /\ BluetoothInit[2] = Try("cdev", <<"region">>)
  BY DEF BluetoothInit
<1>3. /\ Taken(d, 1) = {}
      /\ Taken(d, 2) = {"region"}
      /\ Taken(d, 3) = {"region", "cdev"}
  BY <1>1, <1>2, FirstIndices DEF Taken, Try
<1>4. ASSUME NEW k \in 1..Len(InitCode[d])
      PROVE  StepIsSound(d, k)
  <2>1. k \in {1, 2}
    BY <1>1, <1>2
  <2>2. CASE k = 1
    BY <1>1, <1>2, <1>3, <2>2, CleanupLists
    DEF StepIsSound, Try, Forgotten, NeverFreed, Optional
  <2>3. CASE k = 2
    BY <1>1, <1>2, <1>3, <2>3, CleanupLists
    DEF StepIsSound, Try, Forgotten, NeverFreed, Optional
  <2> QED BY <2>1, <2>2, <2>3
<1>5. InitCode[d] \in Seq(CallEntry) /\ ExitCode[d] \in Seq(Registrations)
  BY <1>1 DEF BluetoothInit, BluetoothExit, CallEntry, Calls, Try
<1>6. RegionLast(ExitCode[d])
  BY <1>1, CleanupLists DEF BluetoothExit
<1>7. Elems(ExitCode[d]) = {"cdev", "region"}
  BY <1>1, CleanupLists DEF BluetoothExit
<1> QED BY <1>1, <1>2, <1>3, <1>4, <1>5, <1>6, <1>7
        DEF CodeIsSound, NeverFreed, Unprotected, NamesOwner

\* wifi_init and wifi_exit.
LEMMA WifiSound == CodeIsSound("wifi")
<1> DEFINE d == "wifi"
<1> USE DEF Registrations, Uses
<1>1. InitCode[d] = WifiInit /\ ExitCode[d] = WifiExit
  BY DEF InitCode, ExitCode
<1>2. /\ Len(WifiInit) = 2
      /\ WifiInit[1] = Try("region", <<>>)
      /\ WifiInit[2] = Try("cdev", <<"region">>)
  BY DEF WifiInit
<1>3. /\ Taken(d, 1) = {}
      /\ Taken(d, 2) = {"region"}
      /\ Taken(d, 3) = {"region", "cdev"}
  BY <1>1, <1>2, FirstIndices DEF Taken, Try
<1>4. ASSUME NEW k \in 1..Len(InitCode[d])
      PROVE  StepIsSound(d, k)
  <2>1. k \in {1, 2}
    BY <1>1, <1>2
  <2>2. CASE k = 1
    BY <1>1, <1>2, <1>3, <2>2, CleanupLists
    DEF StepIsSound, Try, Forgotten, NeverFreed, Optional
  <2>3. CASE k = 2
    BY <1>1, <1>2, <1>3, <2>3, CleanupLists
    DEF StepIsSound, Try, Forgotten, NeverFreed, Optional
  <2> QED BY <2>1, <2>2, <2>3
<1>5. InitCode[d] \in Seq(CallEntry) /\ ExitCode[d] \in Seq(Registrations)
  BY <1>1 DEF WifiInit, WifiExit, CallEntry, Calls, Try
<1>6. RegionLast(ExitCode[d])
  BY <1>1, CleanupLists DEF WifiExit
<1>7. Elems(ExitCode[d]) = {"cdev", "region"}
  BY <1>1, CleanupLists DEF WifiExit
<1> QED BY <1>1, <1>2, <1>3, <1>4, <1>5, <1>6, <1>7
        DEF CodeIsSound, NeverFreed, Unprotected, NamesOwner

\* can_init and can_exit.
LEMMA CanSound == CodeIsSound("can")
<1> DEFINE d == "can"
<1> USE DEF Registrations, Uses
<1>1. InitCode[d] = CanInit /\ ExitCode[d] = CanExit
  BY DEF InitCode, ExitCode
<1>2. /\ Len(CanInit) = 2
      /\ CanInit[1] = Try("region", <<>>)
      /\ CanInit[2] = Try("cdev", <<"region">>)
  BY DEF CanInit
<1>3. /\ Taken(d, 1) = {}
      /\ Taken(d, 2) = {"region"}
      /\ Taken(d, 3) = {"region", "cdev"}
  BY <1>1, <1>2, FirstIndices DEF Taken, Try
<1>4. ASSUME NEW k \in 1..Len(InitCode[d])
      PROVE  StepIsSound(d, k)
  <2>1. k \in {1, 2}
    BY <1>1, <1>2
  <2>2. CASE k = 1
    BY <1>1, <1>2, <1>3, <2>2, CleanupLists
    DEF StepIsSound, Try, Forgotten, NeverFreed, Optional
  <2>3. CASE k = 2
    BY <1>1, <1>2, <1>3, <2>3, CleanupLists
    DEF StepIsSound, Try, Forgotten, NeverFreed, Optional
  <2> QED BY <2>1, <2>2, <2>3
<1>5. InitCode[d] \in Seq(CallEntry) /\ ExitCode[d] \in Seq(Registrations)
  BY <1>1 DEF CanInit, CanExit, CallEntry, Calls, Try
<1>6. RegionLast(ExitCode[d])
  BY <1>1, CleanupLists DEF CanExit
<1>7. Elems(ExitCode[d]) = {"cdev", "region"}
  BY <1>1, CleanupLists DEF CanExit
<1> QED BY <1>1, <1>2, <1>3, <1>4, <1>5, <1>6, <1>7
        DEF CodeIsSound, NeverFreed, Unprotected, NamesOwner

\* esp32_init, whose node comes before its cdev, and esp32_exit.
LEMMA Esp32Sound == CodeIsSound("esp32")
<1> DEFINE d == "esp32"
<1> USE DEF Registrations, Uses
<1>1. InitCode[d] = Esp32Init /\ ExitCode[d] = Esp32Exit
  BY DEF InitCode, ExitCode
<1>2. /\ Len(Esp32Init) = 4
      /\ Esp32Init[1] = Try("region", <<>>)
      /\ Esp32Init[2] = Try("class", <<"region">>)
      /\ Esp32Init[3] = Try("device", <<"class", "region">>)
      /\ Esp32Init[4] = Try("cdev", <<"device", "class", "region">>)
  BY DEF Esp32Init
<1>3. /\ Taken(d, 1) = {}
      /\ Taken(d, 2) = {"region"}
      /\ Taken(d, 3) = {"region", "class"}
      /\ Taken(d, 4) = {"region", "class", "device"}
      /\ Taken(d, 5) = {"region", "class", "device", "cdev"}
  BY <1>1, <1>2, FirstIndices DEF Taken, Try
<1>4. ASSUME NEW k \in 1..Len(InitCode[d])
      PROVE  StepIsSound(d, k)
  <2>1. k \in {1, 2, 3, 4}
    BY <1>1, <1>2
  <2>2. CASE k = 1
    BY <1>1, <1>2, <1>3, <2>2, CleanupLists
    DEF StepIsSound, Try, Forgotten, NeverFreed, Optional
  <2>3. CASE k = 2
    BY <1>1, <1>2, <1>3, <2>3, CleanupLists
    DEF StepIsSound, Try, Forgotten, NeverFreed, Optional
  <2>4. CASE k = 3
    <3>1. /\ InitCode[d][k] = [call |-> "device", fail |-> "return",
                               undo |-> <<"class", "region">>]
          /\ Taken(d, k) = {"region", "class"}
      BY <1>1, <1>2, <1>3, <2>4 DEF Try
    <3> QED
      BY <3>1, CleanupLists DEF StepIsSound, Forgotten, NeverFreed
  <2>5. CASE k = 4
    BY <1>1, <1>2, <1>3, <2>5, CleanupLists
    DEF StepIsSound, Try, Forgotten, NeverFreed, Optional
  <2> QED BY <2>1, <2>2, <2>3, <2>4, <2>5
<1>5. InitCode[d] \in Seq(CallEntry) /\ ExitCode[d] \in Seq(Registrations)
  BY <1>1 DEF Esp32Init, Esp32Exit, CallEntry, Calls, Try
<1>6. RegionLast(ExitCode[d])
  BY <1>1, CleanupLists DEF Esp32Exit
<1>7. Elems(ExitCode[d]) = {"cdev", "device", "class", "region"}
  BY <1>1, CleanupLists DEF Esp32Exit
<1> QED BY <1>1, <1>2, <1>3, <1>4, <1>5, <1>6, <1>7
        DEF CodeIsSound, NeverFreed, Unprotected, NamesOwner

\* spi_char_init, whose error path for a missing device faults, and
\* spi_char_exit: neither frees the memory of the cdev.
LEMMA SpiCharSound == CodeIsSound("spi_char")
<1> DEFINE d == "spi_char"
<1> USE DEF Registrations, Uses
<1>1. InitCode[d] = SpiCharInit /\ ExitCode[d] = SpiCharExit
  BY DEF InitCode, ExitCode
<1>2. /\ Len(SpiCharInit) = 5
      /\ SpiCharInit[1] = Try("region", <<>>)
      /\ SpiCharInit[2] = Faulting("spi_bus_find_device")
      /\ SpiCharInit[3] = Try("kobj", <<"region">>)
      /\ SpiCharInit[4] = Void("memory")
      /\ SpiCharInit[5] = Try("cdev", <<"kobj", "region">>)
  BY DEF SpiCharInit
<1>3. /\ Taken(d, 1) = {}
      /\ Taken(d, 2) = {"region"}
      /\ Taken(d, 3) = {"region"}
      /\ Taken(d, 4) = {"region", "kobj"}
      /\ Taken(d, 5) = {"region", "kobj", "memory"}
      /\ Taken(d, 6) = {"region", "kobj", "memory", "cdev"}
  BY <1>1, <1>2, FirstIndices DEF Taken, Try, Faulting, Void
<1>4. ASSUME NEW k \in 1..Len(InitCode[d])
      PROVE  StepIsSound(d, k)
  <2>1. k \in {1, 2, 3, 4, 5}
    BY <1>1, <1>2
  <2>2. CASE k = 1
    BY <1>1, <1>2, <1>3, <2>2, CleanupLists
    DEF StepIsSound, Try, Forgotten, NeverFreed, Optional
  <2>3. CASE k = 2
    BY <1>1, <1>2, <1>3, <2>3, CleanupLists
    DEF StepIsSound, Faulting, Forgotten, NeverFreed, Optional
  <2>4. CASE k = 3
    BY <1>1, <1>2, <1>3, <2>4, CleanupLists
    DEF StepIsSound, Try, Forgotten, NeverFreed, Optional
  <2>5. CASE k = 4
    BY <1>1, <1>2, <1>3, <2>5 DEF StepIsSound, Void
  <2>6. CASE k = 5
    BY <1>1, <1>2, <1>3, <2>6, CleanupLists
    DEF StepIsSound, Try, Forgotten, NeverFreed, Optional
  <2> QED BY <2>1, <2>2, <2>3, <2>4, <2>5, <2>6
<1>5. InitCode[d] \in Seq(CallEntry) /\ ExitCode[d] \in Seq(Registrations)
  BY <1>1 DEF SpiCharInit, SpiCharExit, CallEntry, Calls, Try, Faulting, Void
<1>6. RegionLast(ExitCode[d])
  BY <1>1, CleanupLists DEF SpiCharExit
<1>7. Elems(ExitCode[d]) = {"cdev", "kobj", "region"}
  BY <1>1, CleanupLists DEF SpiCharExit
<1> QED BY <1>1, <1>2, <1>3, <1>4, <1>5, <1>6, <1>7
        DEF CodeIsSound, NeverFreed, Unprotected, NamesOwner

\* etx_driver_init, whose error paths forget the cdev, and etx_driver_exit.
LEMMA EtxSound == CodeIsSound("etx")
<1> DEFINE d == "etx"
<1> USE DEF Registrations, Uses
<1>1. InitCode[d] = EtxInit /\ ExitCode[d] = EtxExit
  BY DEF InitCode, ExitCode
<1>2. /\ Len(EtxInit) = 4
      /\ EtxInit[1] = Try("region", <<>>)
      /\ EtxInit[2] = Try("cdev", <<"region">>)
      /\ EtxInit[3] = Try("class", <<"region">>)
      /\ EtxInit[4] = Try("device", <<"class", "region">>)
  BY DEF EtxInit
<1>3. /\ Taken(d, 1) = {}
      /\ Taken(d, 2) = {"region"}
      /\ Taken(d, 3) = {"region", "cdev"}
      /\ Taken(d, 4) = {"region", "cdev", "class"}
      /\ Taken(d, 5) = {"region", "cdev", "class", "device"}
  BY <1>1, <1>2, FirstIndices DEF Taken, Try
<1>4. ASSUME NEW k \in 1..Len(InitCode[d])
      PROVE  StepIsSound(d, k)
  <2>1. k \in {1, 2, 3, 4}
    BY <1>1, <1>2
  <2>2. CASE k = 1
    BY <1>1, <1>2, <1>3, <2>2, CleanupLists
    DEF StepIsSound, Try, Forgotten, NeverFreed, Optional
  <2>3. CASE k = 2
    BY <1>1, <1>2, <1>3, <2>3, CleanupLists
    DEF StepIsSound, Try, Forgotten, NeverFreed, Optional
  <2>4. CASE k = 3
    BY <1>1, <1>2, <1>3, <2>4, CleanupLists
    DEF StepIsSound, Try, Forgotten, NeverFreed, Optional
  <2>5. CASE k = 4
    BY <1>1, <1>2, <1>3, <2>5, CleanupLists
    DEF StepIsSound, Try, Forgotten, NeverFreed, Optional
  <2> QED BY <2>1, <2>2, <2>3, <2>4, <2>5
<1>5. InitCode[d] \in Seq(CallEntry) /\ ExitCode[d] \in Seq(Registrations)
  BY <1>1 DEF EtxInit, EtxExit, CallEntry, Calls, Try
<1>6. RegionLast(ExitCode[d])
  BY <1>1, CleanupLists DEF EtxExit
<1>7. Elems(ExitCode[d]) = {"device", "class", "cdev", "region"}
  BY <1>1, CleanupLists DEF EtxExit
<1> QED BY <1>1, <1>2, <1>3, <1>4, <1>5, <1>6, <1>7
        DEF CodeIsSound, NeverFreed, Unprotected, NamesOwner

\* i2c_char_driver_init, which does not check device_create, and its exit.
LEMMA I2cSound == CodeIsSound("i2c")
<1> DEFINE d == "i2c"
<1> USE DEF Registrations, Uses
<1>1. InitCode[d] = I2cInit /\ ExitCode[d] = I2cExit
  BY DEF InitCode, ExitCode
<1>2. /\ Len(I2cInit) = 4
      /\ I2cInit[1] = Try("bus", <<>>)
      /\ I2cInit[2] = Try("region", <<"bus">>)
      /\ I2cInit[3] = Try("class", <<"region", "bus">>)
      /\ I2cInit[4] = Unchecked("device")
  BY DEF I2cInit
<1>3. /\ Taken(d, 1) = {}
      /\ Taken(d, 2) = {"bus"}
      /\ Taken(d, 3) = {"bus", "region"}
      /\ Taken(d, 4) = {"bus", "region", "class"}
      /\ Taken(d, 5) = {"bus", "region", "class", "device"}
  BY <1>1, <1>2, FirstIndices DEF Taken, Unchecked, Try
<1>4. ASSUME NEW k \in 1..Len(InitCode[d])
      PROVE  StepIsSound(d, k)
  <2>1. k \in {1, 2, 3, 4}
    BY <1>1, <1>2
  <2>2. CASE k = 1
    BY <1>1, <1>2, <1>3, <2>2, CleanupLists
    DEF StepIsSound, Try, Forgotten, NeverFreed, Optional
  <2>3. CASE k = 2
    BY <1>1, <1>2, <1>3, <2>3, CleanupLists
    DEF StepIsSound, Try, Forgotten, NeverFreed, Optional
  <2>4. CASE k = 3
    <3>1. /\ InitCode[d][k] = [call |-> "class", fail |-> "return",
                               undo |-> <<"region", "bus">>]
          /\ Taken(d, k) = {"bus", "region"}
      BY <1>1, <1>2, <1>3, <2>4 DEF Try
    <3> QED
      BY <3>1, CleanupLists DEF StepIsSound, Forgotten, NeverFreed
  <2>5. CASE k = 4
    BY <1>1, <1>2, <1>3, <2>5, CleanupLists
    DEF StepIsSound, Unchecked, Forgotten, NeverFreed, Optional
  <2> QED BY <2>1, <2>2, <2>3, <2>4, <2>5
<1>5. InitCode[d] \in Seq(CallEntry) /\ ExitCode[d] \in Seq(Registrations)
  BY <1>1 DEF I2cInit, I2cExit, CallEntry, Calls, Unchecked, Try
<1>6. RegionLast(ExitCode[d])
  BY <1>1, CleanupLists DEF I2cExit
<1>7. Elems(ExitCode[d]) = {"device", "class", "region", "bus"}
  BY <1>1, CleanupLists DEF I2cExit
<1> QED BY <1>1, <1>2, <1>3, <1>4, <1>5, <1>6, <1>7
        DEF CodeIsSound, NeverFreed, Unprotected, NamesOwner

\* Every driver: an error path owes all that was taken before it, and the exit
\* function releases all that init took, number last, with two exceptions: the
\* error paths of etx leave its cdev, and neither the error path nor the exit of
\* spi_char gives back the memory of its own.
THEOREM AllSound ==
  ASSUME NEW d \in AllDrivers
  PROVE  CodeIsSound(d)
BY BluetoothSound, WifiSound, CanSound, Esp32Sound,
   SpiCharSound, EtxSound, I2cSound DEF AllDrivers

-----------------------------------------------------------------------------
(* The invariant.                                                          *)

\* What the cleanup list of d has still to release.
Owed(d) == {cleanup[d][i] : i \in pc[d]..Len(cleanup[d])}

Loading(d) ==
  mod[d] = "coming" =>
    /\ pc[d] \in 1..(Len(InitCode[d]) + 1)
    /\ Taken(d, pc[d]) \ Optional(d) \subseteq held[d]
    /\ held[d] \subseteq Taken(d, pc[d])

Loaded(d) ==
  mod[d] = "live" =>
    /\ Taken(d, Len(InitCode[d]) + 1) \ Optional(d) \subseteq held[d]
    /\ held[d] \subseteq Taken(d, Len(InitCode[d]) + 1)

Unwinding(d) ==
  mod[d] = "unwinding" =>
    /\ held[d] \subseteq Owed(d) \cup Forgotten(d)
    /\ RegionLast(cleanup[d])
    /\ d # "etx" => "cdev" \notin held[d]
    /\ d = "etx" => "device" \notin held[d]

Going(d) ==
  mod[d] = "going" =>
    /\ held[d] \subseteq Owed(d) \cup NeverFreed(d)
    /\ NeverFreed(d) \subseteq held[d] \ Owed(d)
    /\ RegionLast(cleanup[d])
    /\ "cdev" \in held[d] /\ d \notin Unprotected => d \in NamesOwner

Resting(d) ==
  /\ mod[d] = "unloaded" => held[d] = {}
  /\ mod[d] = "stuck" => held[d] \subseteq {"region"}

Numbered(d) ==
  held[d] \cap Uses # {} =>
    "region" \in held[d] \/ (d = "etx" /\ mod[d] = "unwinding")

DriverInv(d) ==
  /\ Loading(d)
  /\ Loaded(d)
  /\ Unwinding(d)
  /\ Going(d)
  /\ Resting(d)
  /\ Numbered(d)

\* No two drivers have the same major.
Exclusive ==
  \A d, e \in Drivers :
    d # e /\ "region" \in held[d] /\ "region" \in held[e] =>
      devnum[d] # devnum[e]

\* Every call of the init function of d has been made.
Complete(d) ==
  \/ mod[d] = "live"
  \/ mod[d] = "coming" /\ pc[d] = Len(InitCode[d]) + 1

\* The states in which d may have users: it is there to stay, unless it is
\* esp32, which goes from under them, or etx, which has them while it loads.
Serving(d) ==
  \/ Complete(d)
  \/ d = "esp32" /\ mod[d] = "going"
  \/ d = "etx" /\ mod[d] \in {"coming", "unwinding"}

\* A file open on a protected driver pins its module, and no other file is open
\* on a module that may not have it.
FileInv ==
  \A f \in Files : file[f].open =>
    /\ file[f].drv \notin Unprotected =>
         file[f].live /\ file[f].drv \in NamesOwner
    /\ file[f].live => Serving(file[f].drv)

OrphansAreKnown ==
  \A o \in orphans :
    <<o.drv, o.reg>> \in {<<"etx", "cdev">>, <<"spi_char", "memory">>}

Core ==
  /\ \A d \in Drivers : DriverInv(d)
  /\ Exclusive
  /\ OrphansAreKnown
  /\ FileInv
  /\ NodeReachesItsDriver

IInv == TypeOK /\ Core

-----------------------------------------------------------------------------
(* Types.                                                                  *)

\* What an open may find: the cdev of a driver with that major, or one whose
\* module is gone.
LEMMA Found ==
  ASSUME TypeOK, NEW m, NEW e \in Lookup(m)
  PROVE  /\ e.drv \in Drivers
         /\ e.live \in BOOLEAN
         /\ e.live => "cdev" \in held[e.drv] /\ devnum[e.drv] = m
         /\ ~e.live => \E o \in orphans : o.reg = "cdev" /\ o.drv = e.drv
<1>1. e \in Mapped(m)
  BY DEF Lookup, Owning
<1>2. CASE \E d \in Drivers : /\ "cdev" \in held[d] /\ devnum[d] = m
                              /\ e = [drv |-> d, live |-> TRUE]
  BY <1>2
<1>3. CASE \E o \in orphans : /\ o.reg = "cdev"
                              /\ e = [drv |-> o.drv, live |-> FALSE]
  BY <1>3 DEF TypeOK, Orphan
<1> QED BY <1>1, <1>2, <1>3 DEF Mapped

\* The code of every driver present is sound.
LEMMA DriverSound ==
  ASSUME NEW d \in Drivers
  PROVE  CodeIsSound(d) /\ Len(InitCode[d]) \in Nat
<1>1. CodeIsSound(d)
  BY AllSound, DriversAssumption
<1> QED BY <1>1 DEF CodeIsSound

\* The variables keep their types on every step of every driver and process.
LEMMA TypeStep ==
  ASSUME TypeOK, [Next]_vars
  PROVE  TypeOK'
<1> USE DEF TypeOK
<1>1. ASSUME NEW d \in Drivers, Insmod(d)
      PROVE  TypeOK'
  BY <1>1 DEF Insmod, ModStates, Majors
<1>2. ASSUME NEW d \in Drivers, Rmmod(d)
      PROVE  TypeOK'
  <2>1. ExitCode[d] \in Seq(Registrations)
    BY DriverSound DEF CodeIsSound
  <2> QED BY <1>2, <2>1 DEF Rmmod, ModStates
<1>3. ASSUME NEW d \in Drivers, RegisterRegion(d)
      PROVE  TypeOK'
  BY <1>3 DEF RegisterRegion, Registrations
<1>4. ASSUME NEW d \in Drivers, AllocRegion(d)
      PROVE  TypeOK'
  BY <1>4 DEF AllocRegion, Registrations, Majors
<1>5. ASSUME NEW d \in Drivers, CallSucceeds(d)
      PROVE  TypeOK'
  BY <1>5 DEF CallSucceeds
<1>6. ASSUME NEW d \in Drivers, CallFails(d)
      PROVE  TypeOK'
  <2>1. InitCode[d] \in Seq(CallEntry) /\ pc[d] \in 1..Len(InitCode[d])
    BY <1>6, AllSound, DriversAssumption DEF CodeIsSound, CallFails, AtCall
  <2>2. InitCode[d][pc[d]] \in CallEntry
    BY <2>1
  <2>3. InitCode[d][pc[d]].undo \in Seq(Registrations)
    BY <2>2 DEF CallEntry
  <2>4. CASE InitCode[d][pc[d]].fail = "return"
    <3>1. /\ mod' = [mod EXCEPT ![d] = "unwinding"]
          /\ cleanup' = [cleanup EXCEPT ![d] = InitCode[d][pc[d]].undo]
          /\ pc' = [pc EXCEPT ![d] = 1]
          /\ UNCHANGED <<devnum, held, orphans, file>>
      BY <1>6, <2>4 DEF CallFails
    <3>2. cleanup' \in [Drivers -> Seq(Registrations)]
      BY <2>3, <3>1
    <3> QED BY <3>1, <3>2 DEF ModStates
  <2>5. CASE InitCode[d][pc[d]].fail = "ignore"
    BY <1>6, <2>5 DEF CallFails, ModStates
  <2>6. CASE InitCode[d][pc[d]].fail = "oops"
    BY <1>6, <2>6 DEF CallFails, ModStates
  <2> QED BY <1>6, <2>4, <2>5, <2>6 DEF CallFails
<1>7. ASSUME NEW d \in Drivers, InitReturnsZero(d)
      PROVE  TypeOK'
  BY <1>7 DEF InitReturnsZero, ModStates
<1>8. ASSUME NEW d \in Drivers, Release(d)
      PROVE  TypeOK'
  BY <1>8 DEF Release
<1>9. ASSUME NEW d \in Drivers, FreeModule(d)
      PROVE  TypeOK'
  <2>1. orphans' \subseteq Orphan
    BY <1>9 DEF FreeModule, Orphan, Majors
  <2>2. ASSUME NEW f \in Files
        PROVE  file'[f] \in Opened \cup {Closed}
    BY <1>9 DEF FreeModule, Opened, Closed
  <2>3. file' \in [Files -> Opened \cup {Closed}]
    BY <1>9, <2>2 DEF FreeModule
  <2> QED BY <1>9, <2>1, <2>3 DEF FreeModule, ModStates, Majors
<1>10. ASSUME NEW f \in Files, NEW n \in Node, Open(f, n)
       PROVE  TypeOK'
  <2>1. PICK e \in Lookup(MajorOf(n)) :
          file' = [file EXCEPT ![f] = [open |-> TRUE, via  |-> n,
                                       drv  |-> e.drv, live |-> e.live]]
    BY <1>10 DEF Open
  <2>2. e.drv \in Drivers /\ e.live \in BOOLEAN
    BY Found
  <2>3. [open |-> TRUE, via |-> n, drv |-> e.drv, live |-> e.live] \in Opened
    BY <2>2 DEF Opened
  <2>4. file' \in [Files -> Opened \cup {Closed}]
    BY <2>1, <2>3
  <2> QED BY <1>10, <2>4 DEF Open
<1>11. ASSUME NEW f \in Files, Close(f)
       PROVE  TypeOK'
  BY <1>11 DEF Close
<1>12. CASE UNCHANGED vars
  BY <1>12 DEF vars
<1> QED
  BY <1>1, <1>2, <1>3, <1>4, <1>5, <1>6, <1>7, <1>8, <1>9, <1>10, <1>11, <1>12
  DEF Next, ModuleStep

\* The module, registration and file tables of CharDrivers are well formed
\* whatever the drivers and processes do.
THEOREM TypeCorrect == Spec => []TypeOK
<1>1. Init => TypeOK
  BY DEF Init, TypeOK, ModStates, Majors, Closed
<1>2. TypeOK /\ [Next]_vars => TypeOK'
  BY TypeStep
<1> QED BY <1>1, <1>2, PTL DEF Spec

-----------------------------------------------------------------------------
(* What a step leaves alone.                                               *)

\* Same(d) holds when a step does not run code of driver d.
Same(d) ==
  /\ mod'[d] = mod[d]
  /\ pc'[d] = pc[d]
  /\ cleanup'[d] = cleanup[d]
  /\ held'[d] = held[d]

\* A step that runs code of d alone keeps the invariant of the others.
LEMMA OneDriver ==
  ASSUME NEW d \in Drivers,
         \A e \in Drivers : DriverInv(e),
         \A e \in Drivers \ {d} : Same(e),
         DriverInv(d)'
  PROVE  \A e \in Drivers : DriverInv(e)'
<1> SUFFICES ASSUME NEW e \in Drivers \ {d}
             PROVE  DriverInv(e)'
  OBVIOUS
<1>1. DriverInv(e) /\ Same(e)
  OBVIOUS
<1>2. Owed(e)' = Owed(e)
  BY <1>1 DEF Owed, Same
<1> QED BY <1>1, <1>2 DEF DriverInv, Same, Loading, Loaded, Unwinding, Going,
                          Resting, Numbered

\* A step that takes no major number keeps the majors distinct.
LEMMA SameMajors ==
  ASSUME Exclusive,
         \A e \in Drivers : "region" \in held'[e] =>
           "region" \in held[e] /\ devnum'[e] = devnum[e]
  PROVE  Exclusive'
BY DEF Exclusive

\* An open file is served by one of the drivers.
LEMMA OpenDriver ==
  ASSUME TypeOK, NEW f \in Files, file[f].open
  PROVE  file[f].drv \in Drivers
<1>1. file[f] \in Opened \/ file[f] = [open |-> FALSE]
  BY DEF TypeOK, Closed
<1>2. CASE file[f] \in Opened
  BY <1>2 DEF Opened
<1>3. CASE file[f] = [open |-> FALSE]
  <2>1. ~file[f].open
    BY <1>3
  <2> QED BY <2>1
<1> QED BY <1>1, <1>2, <1>3

\* A step that opens no file and takes no driver from its users keeps FileInv.
LEMMA SameFiles ==
  ASSUME TypeOK, FileInv, file' = file,
         \A e \in Drivers : Serving(e) => Serving(e)'
  PROVE  FileInv'
<1> SUFFICES ASSUME NEW f \in Files, file[f].open, file[f].live
             PROVE  Serving(file[f].drv)'
  BY DEF FileInv
<1>1. file[f].drv \in Drivers
  BY OpenDriver
<1>2. Serving(file[f].drv)
  BY DEF FileInv
<1> QED BY <1>1, <1>2

\* What a cleanup list still owes is its next entry and what follows.
LEMMA OwedStep ==
  ASSUME NEW s, NEW k \in Nat \ {0}, k <= Len(s), Len(s) \in Nat
  PROVE  {s[i] : i \in k..Len(s)} = {s[k]} \cup {s[i] : i \in (k + 1)..Len(s)}
<1>1. k..Len(s) = {k} \cup ((k + 1)..Len(s))
  OBVIOUS
<1> QED BY <1>1

\* A call that takes its registration (none, when c is a lookup)
\* brings the driver one call further in its load.
LEMMA CallTaken ==
  ASSUME TypeOK, NEW d \in Drivers, DriverInv(d), NEW c, AtCall(d, c),
         mod'[d] = mod[d], pc'[d] = pc[d] + 1,
         held'[d] = held[d] \cup ({c} \cap Registrations)
  PROVE  DriverInv(d)'
<1> DEFINE k == pc[d]
<1>1. /\ CodeIsSound(d)
      /\ k \in 1..Len(InitCode[d])
      /\ mod[d] = "coming"
      /\ InitCode[d][k].call = c
  <2>1. CodeIsSound(d) /\ Len(InitCode[d]) \in Nat
    BY DriverSound
  <2>2. k \in Nat \ {0}
    BY DEF TypeOK
  <2> QED BY <2>1, <2>2 DEF AtCall
<1>2. StepIsSound(d, k)
  BY <1>1 DEF CodeIsSound
<1>3. Taken(d, k + 1) = Taken(d, k) \cup ({c} \cap Registrations)
  <2>1. k \in Nat \ {0}
    BY <1>1
  <2>2. Taken(d, k + 1) =
          Taken(d, k) \cup ({InitCode[d][k].call} \cap Registrations)
    BY <2>1, TakenNext
  <2> QED BY <1>1, <2>2
<1>4. /\ Taken(d, k) \ Optional(d) \subseteq held[d]
      /\ held[d] \subseteq Taken(d, k)
  BY <1>1 DEF DriverInv, Loading
<1>5. Loading(d)'
  <2>1. pc'[d] = k + 1 /\ pc'[d] \in 1..(Len(InitCode[d]) + 1)
    BY <1>1
  <2>2. /\ Taken(d, pc'[d]) \ Optional(d) \subseteq held'[d]
        /\ held'[d] \subseteq Taken(d, pc'[d])
    BY <1>3, <1>4, <2>1
  <2> QED BY <2>1, <2>2 DEF Loading
<1>6. "region" \in Taken(d, k) => "region" \in held[d]
  BY <1>4 DEF Optional
<1>7. Numbered(d)'
  BY <1>1, <1>2, <1>6 DEF Numbered, DriverInv, StepIsSound, Uses
<1> QED BY <1>1, <1>5, <1>7 DEF DriverInv, Loaded, Unwinding, Going, Resting

-----------------------------------------------------------------------------
(* One lemma per action: the step keeps Core.                              *)

\* insmod starts with nothing held.
LEMMA InsmodKeeps ==
  ASSUME IInv, NEW d \in Drivers, Insmod(d)
  PROVE  Core'
<1> USE DEF IInv, Core
<1>1. /\ mod[d] = "unloaded" /\ held[d] = {}
      /\ mod' = [mod EXCEPT ![d] = "coming"]
      /\ pc' = [pc EXCEPT ![d] = 1]
      /\ UNCHANGED <<cleanup, held, orphans, file>>
      /\ \A e \in Drivers \ {d} : devnum'[e] = devnum[e]
  BY DEF Insmod, TypeOK, DriverInv, Resting
<1>2. DriverInv(d)'
  <2>1. Taken(d, 1) = {}
    BY FirstIndices DEF Taken
  <2>2. Len(InitCode[d]) \in Nat
    BY DriverSound
  <2>3. mod'[d] = "coming" /\ pc'[d] = 1 /\ held'[d] = {}
    BY <1>1 DEF TypeOK
  <2> QED BY <2>1, <2>2, <2>3 DEF DriverInv, Loading, Loaded, Unwinding, Going,
                                  Resting, Numbered
<1>3. \A e \in Drivers : DriverInv(e)'
  BY <1>1, <1>2, OneDriver DEF Same, TypeOK
<1>4. Exclusive'
  BY <1>1, SameMajors
<1>5. FileInv'
  <2>1. \A e \in Drivers : Serving(e) => Serving(e)'
    BY <1>1 DEF Serving, Complete, TypeOK
  <2> QED BY <1>1, <2>1, SameFiles
<1> QED BY <1>1, <1>3, <1>4, <1>5 DEF OrphansAreKnown, NodeReachesItsDriver

\* The three ways in which a call of an init function succeeds have this in
\* common: one more registration is held and the next call is due.
LEMMA CallTakenKeeps ==
  ASSUME IInv, NEW d \in Drivers, NEW c, AtCall(d, c),
         held' = [held EXCEPT ![d] = @ \cup ({c} \cap Registrations)],
         pc' = [pc EXCEPT ![d] = @ + 1],
         UNCHANGED <<mod, cleanup, orphans, file>>,
         Exclusive'
  PROVE  Core'
<1> USE DEF IInv, Core
<1>1. DriverInv(d)'
  BY CallTaken DEF TypeOK
<1>2. \A e \in Drivers : DriverInv(e)'
  BY <1>1, OneDriver DEF Same, TypeOK
<1>3. FileInv'
  <2>1. pc[d] <= Len(InitCode[d]) /\ mod[d] = "coming"
    BY DEF AtCall
  <2>2. Len(InitCode[d]) \in Nat /\ pc[d] \in Nat
    BY DriverSound DEF TypeOK
  <2>3. ~Complete(d)
    BY <2>1, <2>2 DEF Complete
  <2>4. \A e \in Drivers : Serving(e) => Serving(e)'
    BY <2>3 DEF Serving, Complete, TypeOK
  <2> QED BY <2>4, SameFiles
<1> QED BY <1>2, <1>3 DEF OrphansAreKnown, NodeReachesItsDriver

\* A fixed major is given to one driver at a time.
LEMMA RegisterRegionKeeps ==
  ASSUME IInv, NEW d \in Drivers, RegisterRegion(d)
  PROVE  Core'
<1>1. Exclusive'
  BY DEF RegisterRegion, RegionFree, Exclusive, IInv, Core, TypeOK
<1>2. held' = [held EXCEPT ![d] = @ \cup ({"region"} \cap Registrations)]
  BY DEF RegisterRegion, Registrations
<1> QED BY <1>1, <1>2, CallTakenKeeps DEF RegisterRegion

\* alloc_chrdev_region picks a major nobody has.
LEMMA AllocRegionKeeps ==
  ASSUME IInv, NEW d \in Drivers, AllocRegion(d)
  PROVE  Core'
<1>1. Exclusive'
  BY DEF AllocRegion, RegionFree, Exclusive, IInv, Core, TypeOK
<1>2. held' = [held EXCEPT ![d] = @ \cup ({"region"} \cap Registrations)]
  BY DEF AllocRegion, Registrations
<1> QED BY <1>1, <1>2, CallTakenKeeps DEF AllocRegion

\* Any other call adds its registration and takes no major.
LEMMA CallSucceedsKeeps ==
  ASSUME IInv, NEW d \in Drivers, CallSucceeds(d)
  PROVE  Core'
<1>1. PICK c \in Calls \ {"region"} :
        /\ AtCall(d, c)
        /\ held' = [held EXCEPT ![d] = @ \cup ({c} \cap Registrations)]
  BY DEF CallSucceeds
<1>2. \A e \in Drivers : "region" \in held'[e] => "region" \in held[e]
  BY <1>1 DEF IInv, TypeOK
<1>3. Exclusive'
  BY <1>2, SameMajors DEF CallSucceeds, IInv, Core
<1> QED BY <1>1, <1>3, CallTakenKeeps DEF CallSucceeds

\* A call of an init function fails: its error path owes all that was taken,
\* the failure is ignored, or the load is stuck.
LEMMA CallFailsKeeps ==
  ASSUME IInv, NEW d \in Drivers, CallFails(d)
  PROVE  Core'
<1> USE DEF IInv, Core
<1> DEFINE k == pc[d]
           s == InitCode[d][k]
<1>1. CodeIsSound(d) /\ Len(InitCode[d]) \in Nat /\ k \in Nat \ {0}
  BY DriverSound DEF TypeOK
<1>2. mod[d] = "coming" /\ k \in 1..Len(InitCode[d])
  <2>1. mod[d] = "coming" /\ k <= Len(InitCode[d])
    BY DEF CallFails, AtCall
  <2> QED BY <1>1, <2>1
<1>3. StepIsSound(d, k)
  BY <1>1, <1>2 DEF CodeIsSound
<1>4. /\ Taken(d, k) \ Optional(d) \subseteq held[d]
      /\ held[d] \subseteq Taken(d, k)
      /\ Numbered(d)
  BY <1>2 DEF DriverInv, Loading
<1>5. /\ UNCHANGED <<devnum, held, orphans, file>>
      /\ \A e \in Drivers \ {d} : Same(e)
  <2>1. CASE s.fail = "return"
    BY <2>1 DEF CallFails, Same, TypeOK
  <2>2. CASE s.fail = "ignore"
    BY <2>2 DEF CallFails, Same, TypeOK
  <2>3. CASE s.fail = "oops"
    BY <2>3 DEF CallFails, Same, TypeOK
  <2> QED BY <2>1, <2>2, <2>3 DEF CallFails
<1>6. DriverInv(d)'
  <2>1. CASE s.fail = "return"
    <3>1. mod'[d] = "unwinding" /\ pc'[d] = 1 /\ cleanup'[d] = s.undo
      BY <2>1 DEF CallFails, TypeOK
    <3>2. Owed(d)' = Elems(s.undo)
      BY <3>1 DEF Owed, Elems
    <3>3. held'[d] = held[d]
      BY <1>5
    <3>4. /\ Taken(d, k) \subseteq Elems(s.undo) \cup Forgotten(d)
          /\ RegionLast(s.undo)
          /\ d # "etx" => "cdev" \notin Taken(d, k)
          /\ d = "etx" => "device" \notin Taken(d, k)
      BY <1>3, <2>1 DEF StepIsSound
    <3>5. Unwinding(d)'
      BY <1>4, <3>1, <3>2, <3>3, <3>4 DEF Unwinding
    <3>6. Numbered(d)'
      BY <1>2, <1>4, <3>1, <3>3 DEF Numbered
    <3> QED BY <3>1, <3>5, <3>6 DEF DriverInv, Loading, Loaded, Going, Resting
  <2>2. CASE s.fail = "ignore"
    <3>1. mod'[d] = "coming" /\ pc'[d] = k + 1 /\ held'[d] = held[d]
      BY <1>2, <1>5, <2>2 DEF CallFails, TypeOK
    <3>2. Taken(d, k + 1) = Taken(d, k) \cup ({s.call} \cap Registrations)
      BY <1>1, TakenNext
    <3>3. {s.call} \cap Registrations \subseteq Optional(d)
      BY <1>3, <2>2 DEF StepIsSound
    <3>4. Loading(d)'
      <4>1. k + 1 \in 1..(Len(InitCode[d]) + 1)
        BY <1>1, <1>2
      <4>2. /\ Taken(d, k + 1) \ Optional(d) \subseteq held[d]
            /\ held[d] \subseteq Taken(d, k + 1)
        BY <1>4, <3>2, <3>3
      <4> QED BY <3>1, <4>1, <4>2 DEF Loading
    <3>5. Numbered(d)'
      BY <1>2, <1>4, <3>1 DEF Numbered
    <3> QED BY <3>1, <3>4, <3>5 DEF DriverInv, Loaded, Unwinding, Going, Resting
  <2>3. CASE s.fail = "oops"
    <3>1. mod'[d] = "stuck" /\ held'[d] = held[d]
      BY <1>5, <2>3 DEF CallFails, TypeOK
    <3>2. held'[d] \subseteq {"region"}
      BY <1>3, <1>4, <2>3, <3>1 DEF StepIsSound
    <3> QED BY <3>1, <3>2 DEF DriverInv, Loading, Loaded, Unwinding, Going,
                              Resting, Numbered, Uses
  <2>4. s.fail \in {"return", "ignore", "oops"}
    BY DEF CallFails
  <2> QED BY <2>1, <2>2, <2>3, <2>4
<1>7. \A e \in Drivers : DriverInv(e)'
  BY <1>5, <1>6, OneDriver
<1>8. Exclusive'
  BY <1>5, SameMajors
<1>9. FileInv'
  <2>1. ~Complete(d)
    BY <1>1, <1>2 DEF Complete
  <2>2. Serving(d) => Serving(d)'
    <3>1. s.fail = "oops" => d # "etx"
      BY <1>3 DEF StepIsSound
    <3>2. mod'[d] \in {"coming", "unwinding"} \/ s.fail = "oops"
      BY <1>2 DEF CallFails, TypeOK
    <3> QED BY <1>2, <2>1, <3>1, <3>2 DEF Serving
  <2>3. \A e \in Drivers : Serving(e) => Serving(e)'
    BY <1>5, <2>2 DEF Serving, Complete, Same
  <2> QED BY <1>5, <2>3, SameFiles
<1> QED BY <1>5, <1>7, <1>8, <1>9 DEF OrphansAreKnown, NodeReachesItsDriver

\* A load that is complete holds all that its init function takes.
LEMMA InitReturnsZeroKeeps ==
  ASSUME IInv, NEW d \in Drivers, InitReturnsZero(d)
  PROVE  Core'
<1> USE DEF IInv, Core
<1>1. /\ mod[d] = "coming" /\ pc[d] > Len(InitCode[d])
      /\ mod' = [mod EXCEPT ![d] = "live"]
      /\ UNCHANGED <<pc, cleanup, devnum, held, orphans, file>>
  BY DEF InitReturnsZero
<1>2. DriverInv(d)'
  <2>1. Len(InitCode[d]) \in Nat
    BY DriverSound
  <2>2. pc[d] = Len(InitCode[d]) + 1
    BY <1>1, <2>1 DEF DriverInv, Loading
  <2>3. mod'[d] = "live" /\ held'[d] = held[d]
    BY <1>1 DEF TypeOK
  <2>4. Loaded(d)'
    BY <1>1, <2>2, <2>3 DEF DriverInv, Loading, Loaded
  <2> QED BY <1>1, <2>3, <2>4 DEF DriverInv, Loading, Unwinding, Going, Resting,
                                  Numbered
<1>3. \A e \in Drivers : DriverInv(e)'
  BY <1>1, <1>2, OneDriver DEF Same, TypeOK
<1>4. Exclusive'
  BY <1>1, SameMajors
<1>5. FileInv'
  <2>1. \A e \in Drivers : Serving(e) => Serving(e)'
    BY <1>1 DEF Serving, Complete, TypeOK
  <2> QED BY <1>1, <2>1, SameFiles
<1> QED BY <1>1, <1>3, <1>4, <1>5 DEF OrphansAreKnown, NodeReachesItsDriver

\* rmmod starts the exit function, which owes all that the driver holds; no
\* file of a protected driver is open on it, or rmmod is refused.
LEMMA RmmodKeeps ==
  ASSUME IInv, NEW d \in Drivers, Rmmod(d)
  PROVE  Core'
<1> USE DEF IInv, Core
<1>1. /\ mod[d] = "live" /\ Pins(d) = {}
      /\ mod' = [mod EXCEPT ![d] = "going"]
      /\ cleanup' = [cleanup EXCEPT ![d] = ExitCode[d]]
      /\ pc' = [pc EXCEPT ![d] = 1]
      /\ UNCHANGED <<devnum, held, orphans, file>>
  BY DEF Rmmod
<1>2. DriverInv(d)'
  <2>1. CodeIsSound(d)
    BY DriverSound
  <2>2. /\ mod'[d] = "going" /\ held'[d] = held[d]
        /\ cleanup'[d] = ExitCode[d] /\ pc'[d] = 1
    BY <1>1 DEF TypeOK
  <2>3. Owed(d)' = Elems(ExitCode[d])
    BY <2>2 DEF Owed, Elems
  <2>4. Going(d)'
    <3>1. /\ Taken(d, Len(InitCode[d]) + 1) \ Optional(d) \subseteq held[d]
          /\ held[d] \subseteq Taken(d, Len(InitCode[d]) + 1)
      BY <1>1 DEF DriverInv, Loaded
    <3>2. Taken(d, Len(InitCode[d]) + 1) \ Elems(ExitCode[d]) = NeverFreed(d)
      BY <2>1 DEF CodeIsSound
    <3>3. NeverFreed(d) \cap Optional(d) = {}
      BY DEF NeverFreed, Optional
    <3>4. /\ held[d] \subseteq Elems(ExitCode[d]) \cup NeverFreed(d)
          /\ NeverFreed(d) \subseteq held[d] \ Elems(ExitCode[d])
      BY <3>1, <3>2, <3>3
    <3>5. "cdev" \in held[d] /\ d \notin Unprotected => d \in NamesOwner
      BY <2>1, <3>1 DEF CodeIsSound
    <3> QED BY <2>1, <2>2, <2>3, <3>4, <3>5 DEF CodeIsSound, Going
  <2> QED BY <1>1, <2>2, <2>4 DEF DriverInv, Loading, Loaded, Unwinding,
                                  Resting, Numbered
<1>3. \A e \in Drivers : DriverInv(e)'
  BY <1>1, <1>2, OneDriver DEF Same, TypeOK
<1>4. Exclusive'
  BY <1>1, SameMajors
<1>5. FileInv'
  <2> SUFFICES ASSUME NEW f \in Files, file[f].open, file[f].live
               PROVE  Serving(file[f].drv)'
    BY <1>1 DEF FileInv
  <2>1. file[f].drv \in Drivers /\ Serving(file[f].drv)
    BY OpenDriver DEF FileInv
  <2>2. CASE file[f].drv = d
    <3>1. d \notin NamesOwner
      BY <1>1, <2>2 DEF Pins
    <3>2. d = "esp32"
      BY <2>2, <3>1 DEF FileInv, Unprotected, NamesOwner
    <3>3. mod'[d] = "going"
      BY <1>1 DEF TypeOK
    <3> QED BY <1>1, <2>2, <3>2, <3>3 DEF Serving
  <2>3. CASE file[f].drv # d
    BY <1>1, <2>1, <2>3 DEF Serving, Complete, TypeOK
  <2> QED BY <2>2, <2>3
<1> QED BY <1>1, <1>3, <1>4, <1>5 DEF OrphansAreKnown, NodeReachesItsDriver

\* The next release: a cleanup list that gives the major back has no node and
\* no cdev of the driver left to remove after it.
LEMMA ReleaseKeeps ==
  ASSUME IInv, NEW d \in Drivers, Release(d)
  PROVE  Core'
<1> USE DEF IInv, Core
<1> DEFINE k == pc[d]
           s == cleanup[d]
           r == s[k]
           rest == {s[i] : i \in (k + 1)..Len(s)}
<1>1. /\ mod[d] \in {"unwinding", "going"} /\ k <= Len(s)
      /\ held' = [held EXCEPT ![d] = @ \ {r}]
      /\ pc' = [pc EXCEPT ![d] = @ + 1]
      /\ UNCHANGED <<mod, cleanup, devnum, orphans, file>>
  BY DEF Release
<1>2. k \in Nat \ {0} /\ Len(s) \in Nat
  BY DEF TypeOK
<1>3. /\ pc'[d] = k + 1 /\ held'[d] = held[d] \ {r}
      /\ mod'[d] = mod[d] /\ cleanup'[d] = s
  BY <1>1 DEF TypeOK
<1>4. Owed(d) = {r} \cup rest
  BY <1>1, <1>2, OwedStep DEF Owed
<1>5. Owed(d)' = rest
  BY <1>3 DEF Owed
<1>6. RegionLast(s)
  BY <1>1 DEF DriverInv, Unwinding, Going
<1>7. r = "region" => rest \cap Uses = {}
  <2> SUFFICES ASSUME r = "region", NEW i \in (k + 1)..Len(s)
               PROVE  s[i] \notin Uses
    OBVIOUS
  <2> QED BY <1>1, <1>2, <1>6 DEF RegionLast
<1>8. DriverInv(d)'
  <2>1. CASE mod[d] = "unwinding"
    <3>1. held[d] \subseteq {r} \cup rest \cup Forgotten(d)
      BY <1>4, <2>1 DEF DriverInv, Unwinding
    <3>2. Unwinding(d)'
      BY <1>3, <1>5, <1>6, <2>1, <3>1 DEF DriverInv, Unwinding
    <3>3. Numbered(d)'
      BY <1>3, <1>7, <2>1, <3>1
      DEF DriverInv, Numbered, Forgotten, NeverFreed, Uses
    <3> QED BY <1>3, <2>1, <3>2, <3>3
            DEF DriverInv, Loading, Loaded, Going, Resting
  <2>2. CASE mod[d] = "going"
    <3>1. /\ held[d] \subseteq {r} \cup rest \cup NeverFreed(d)
          /\ NeverFreed(d) \subseteq held[d] \ ({r} \cup rest)
      BY <1>4, <2>2 DEF DriverInv, Going
    <3>2. Going(d)'
      BY <1>3, <1>5, <1>6, <2>2, <3>1 DEF DriverInv, Going
    <3>3. Numbered(d)'
      BY <1>3, <1>7, <2>2, <3>1 DEF DriverInv, Numbered, NeverFreed, Uses
    <3> QED BY <1>3, <2>2, <3>2, <3>3
            DEF DriverInv, Loading, Loaded, Unwinding, Resting
  <2> QED BY <1>1, <2>1, <2>2
<1>9. \A e \in Drivers : DriverInv(e)'
  BY <1>1, <1>8, OneDriver DEF Same, TypeOK
<1>10. Exclusive'
  <2>1. \A e \in Drivers : "region" \in held'[e] => "region" \in held[e]
    BY <1>1 DEF TypeOK
  <2> QED BY <1>1, <2>1, SameMajors
<1>11. FileInv'
  <2>1. \A e \in Drivers : Serving(e) => Serving(e)'
    BY <1>1 DEF Serving, Complete, TypeOK
  <2> QED BY <1>1, <2>1, SameFiles
<1> QED BY <1>1, <1>9, <1>10, <1>11
     DEF OrphansAreKnown, NodeReachesItsDriver

\* The module is freed: nothing was owed any more, so that only what etx and
\* spi_char forget is left, and no protected driver's file was open on it.
LEMMA FreeModuleKeeps ==
  ASSUME IInv, NEW d \in Drivers, FreeModule(d)
  PROVE  Core'
<1> USE DEF IInv, Core
<1>1. /\ mod[d] \in {"unwinding", "going"} /\ pc[d] > Len(cleanup[d])
      /\ mod' = [mod EXCEPT ![d] = "unloaded"]
      /\ orphans' = orphans \cup
           {[reg |-> q, drv |-> d,
             major |-> IF q = "memory" THEN 0 ELSE devnum[d]] : q \in held[d]}
      /\ held' = [held EXCEPT ![d] = {}]
      /\ pc' = [pc EXCEPT ![d] = 1]
      /\ cleanup' = [cleanup EXCEPT ![d] = <<>>]
      /\ devnum' = [devnum EXCEPT ![d] = 0]
      /\ \A f \in Files :
           ~(file[f].open /\ file[f].drv = d) => file'[f] = file[f]
  BY DEF FreeModule
<1>2. held[d] \subseteq Forgotten(d)
  <2>1. Owed(d) = {}
    <3>1. pc[d]..Len(cleanup[d]) = {}
      BY <1>1 DEF TypeOK
    <3> QED BY <3>1 DEF Owed
  <2> QED BY <1>1, <2>1 DEF DriverInv, Unwinding, Going, Forgotten
<1>3. DriverInv(d)'
  <2>1. mod'[d] = "unloaded" /\ held'[d] = {}
    BY <1>1 DEF TypeOK
  <2> QED BY <2>1 DEF DriverInv, Loading, Loaded, Unwinding, Going, Resting,
                      Numbered
<1>4. \A e \in Drivers : DriverInv(e)'
  BY <1>1, <1>3, OneDriver DEF Same, TypeOK
<1>5. Exclusive'
  <2>1. \A e \in Drivers : "region" \in held'[e] =>
          "region" \in held[e] /\ devnum'[e] = devnum[e]
    BY <1>1 DEF TypeOK
  <2> QED BY <2>1, SameMajors
<1>6. OrphansAreKnown'
  BY <1>1, <1>2 DEF OrphansAreKnown, Forgotten, NeverFreed
<1>7. ASSUME NEW f \in Files, file[f].open, file[f].drv = d
      PROVE  /\ file'[f].open /\ file'[f].drv = d
             /\ file'[f].via = file[f].via
             /\ ~file'[f].live
             /\ d \in Unprotected
  <2>1. file'[f] = [file[f] EXCEPT !.live = FALSE]
    BY <1>7 DEF FreeModule
  <2>2. file[f] \in Opened
    BY <1>7 DEF TypeOK, Closed
  <2>3. ~Complete(d)
    BY <1>1 DEF Complete
  <2>4. d \in Unprotected
    BY <1>7, <2>3 DEF FileInv, Serving, Unprotected
  <2> QED BY <1>7, <2>1, <2>2, <2>4 DEF Opened
<1>8. NodeReachesItsDriver'
  BY <1>1, <1>7 DEF NodeReachesItsDriver
<1>9. FileInv'
  <2> SUFFICES ASSUME NEW f \in Files, file'[f].open
               PROVE  /\ file'[f].drv \notin Unprotected =>
                           file'[f].live /\ file'[f].drv \in NamesOwner
                      /\ file'[f].live => Serving(file[f].drv)'
    BY <1>1, <1>7 DEF FileInv
  <2>1. CASE file[f].open /\ file[f].drv = d
    BY <1>7, <2>1
  <2>2. CASE ~(file[f].open /\ file[f].drv = d)
    <3>1. file'[f] = file[f] /\ file[f].open /\ file[f].drv # d
      BY <1>1, <2>2
    <3>2. file[f].drv \in Drivers
      BY <3>1, OpenDriver
    <3> QED BY <1>1, <3>1, <3>2 DEF FileInv, Serving, Complete, TypeOK
  <2> QED BY <2>1, <2>2
<1> QED BY <1>4, <1>5, <1>6, <1>8, <1>9

\* An open through a /dev node finds the node's own driver, or etx's
\* leftover; a protected driver is found only when its init is complete.
LEMMA OpenKeeps ==
  ASSUME IInv, NEW f \in Files, NEW n \in Node, Open(f, n)
  PROVE  Core'
<1> USE DEF IInv, Core
<1> DEFINE m == MajorOf(n)
<1>1. /\ NodeExists(n)
      /\ UNCHANGED <<mod, pc, cleanup, devnum, held, orphans>>
  BY DEF Open
<1>2. PICK e \in Lookup(m) :
        /\ (e.live /\ e.drv \in NamesOwner) => mod[e.drv] # "going"
        /\ file' = [file EXCEPT ![f] = [open |-> TRUE, via  |-> n,
                                        drv  |-> e.drv, live |-> e.live]]
  BY DEF Open
<1>3. /\ e.drv \in Drivers
      /\ e.live \in BOOLEAN
      /\ e.live => "cdev" \in held[e.drv] /\ devnum[e.drv] = m
      /\ ~e.live => e.drv = "etx"
  BY Found DEF OrphansAreKnown
<1>4. /\ file'[f] = [open |-> TRUE, via |-> n, drv |-> e.drv, live |-> e.live]
      /\ \A g \in Files \ {f} : file'[g] = file[g]
  BY <1>2 DEF TypeOK
<1>5. \A c \in Drivers : DriverInv(c)'
  BY <1>1 DEF DriverInv, Loading, Loaded, Unwinding, Going, Resting,
     Numbered, Owed
<1>6. Exclusive' /\ OrphansAreKnown'
  BY <1>1 DEF Exclusive, OrphansAreKnown
<1>7. NodeReachesItsDriver'
  <2>1. ASSUME n.made = "devtmpfs"
        PROVE  e.drv \in {n.drv, "etx"}
    <3>1. "device" \in held[n.drv] /\ m = devnum[n.drv] /\ n.drv \in Drivers
      BY <1>1, <2>1 DEF NodeExists, MajorOf, Node
    <3>2. "region" \in held[n.drv]
      BY <3>1 DEF DriverInv, Numbered, Unwinding, Uses
    <3>3. CASE e.live /\ e.drv # "etx"
      <4>1. "region" \in held[e.drv] /\ devnum[e.drv] = m
        BY <1>3, <3>3 DEF DriverInv, Numbered, Uses
      <4> QED BY <1>3, <3>1, <3>2, <4>1 DEF Exclusive
    <3> QED BY <1>3, <3>3
  <2>2. ASSUME NEW g \in Files, file'[g].open, file'[g].via.made = "devtmpfs"
        PROVE  file'[g].drv \in {file'[g].via.drv, "etx"}
    <3>1. CASE g = f
      BY <1>4, <2>1, <2>2, <3>1
    <3>2. CASE g # f
      BY <1>4, <2>2, <3>2 DEF NodeReachesItsDriver
    <3> QED BY <3>1, <3>2
  <2> QED BY <2>2 DEF NodeReachesItsDriver
<1>8. FileInv'
  <2> DEFINE d == e.drv
  <2>1. ASSUME e.live
        PROVE  /\ Serving(d)
               /\ d \notin Unprotected => d \in NamesOwner
    <3>1. "cdev" \in held[d] /\ DriverInv(d)
      BY <1>3, <2>1
    <3>2. mod[d] \in {"coming", "unwinding", "live", "going"}
      <4>1. mod[d] \in ModStates
        BY <1>3 DEF TypeOK
      <4>2. mod[d] \notin {"unloaded", "stuck"}
        BY <3>1 DEF DriverInv, Resting
      <4> QED BY <4>1, <4>2 DEF ModStates
    <3>3. CodeIsSound(d) /\ Len(InitCode[d]) \in Nat
      BY <1>3, DriverSound
    <3>4. CASE mod[d] = "coming"
      <4>1. pc[d] \in 1..(Len(InitCode[d]) + 1) /\ "cdev" \in Taken(d, pc[d])
        BY <3>1, <3>4 DEF DriverInv, Loading
      <4>2. CASE d # "etx"
        <5>1. pc[d] \notin 1..Len(InitCode[d])
          BY <3>3, <4>1, <4>2 DEF CodeIsSound, StepIsSound
        <5>2. pc[d] = Len(InitCode[d]) + 1
          BY <3>3, <4>1, <5>1
        <5> QED
          BY <3>3, <3>4, <4>1, <5>2 DEF CodeIsSound, Complete, Serving
      <4>3. CASE d = "etx"
        BY <3>4, <4>3 DEF Serving, Unprotected
      <4> QED BY <4>2, <4>3
    <3>5. CASE mod[d] = "live"
      <4>1. "cdev" \in Taken(d, Len(InitCode[d]) + 1)
        BY <3>1, <3>5 DEF DriverInv, Loaded
      <4> QED BY <3>3, <3>5, <4>1 DEF CodeIsSound, Complete, Serving
    <3>6. CASE mod[d] = "unwinding"
      <4>1. d = "etx"
        BY <3>1, <3>6 DEF DriverInv, Unwinding
      <4> QED BY <3>6, <4>1 DEF Serving, Unprotected
    <3>7. CASE mod[d] = "going"
      <4>1. d \notin NamesOwner
        BY <1>2, <2>1, <3>7
      <4>2. d = "esp32"
        BY <3>1, <3>7, <4>1 DEF DriverInv, Going, Unprotected, NamesOwner
      <4> QED BY <3>7, <4>2 DEF Serving, Unprotected
    <3> QED BY <3>2, <3>4, <3>5, <3>6, <3>7
  <2>2. e.live \/ d \in Unprotected
    BY <1>3 DEF Unprotected
  <2>3. ASSUME NEW g \in Files, file'[g].open
        PROVE  /\ file'[g].drv \notin Unprotected =>
                    file'[g].live /\ file'[g].drv \in NamesOwner
               /\ file'[g].live => Serving(file[g].drv)'
    <3>1. CASE g = f
      <4>1. file'[g].drv = d /\ file'[g].live = e.live
        BY <1>4, <3>1
      <4> QED BY <1>1, <2>1, <2>2, <4>1 DEF Serving, Complete
    <3>2. CASE g # f
      BY <1>1, <1>4, <2>3, <3>2 DEF FileInv, Serving, Complete
    <3> QED BY <3>1, <3>2
  <2> QED BY <2>3 DEF FileInv
<1> QED BY <1>5, <1>6, <1>7, <1>8

\* A close frees a slot and changes nothing else.
LEMMA CloseKeeps ==
  ASSUME IInv, NEW f \in Files, Close(f)
  PROVE  Core'
<1> USE DEF IInv, Core
<1>1. /\ UNCHANGED <<mod, pc, cleanup, devnum, held, orphans>>
      /\ file'[f] = [open |-> FALSE]
      /\ \A g \in Files \ {f} : file'[g] = file[g]
  BY DEF Close, Closed, TypeOK
<1>2. \A c \in Drivers : DriverInv(c)'
  BY <1>1 DEF DriverInv, Loading, Loaded, Unwinding, Going, Resting,
     Numbered, Owed
<1>3. ~file'[f].open
  BY <1>1
<1>4. FileInv' /\ NodeReachesItsDriver'
  BY <1>1, <1>3 DEF FileInv, NodeReachesItsDriver, Serving, Complete
<1> QED BY <1>1, <1>2, <1>4 DEF Exclusive, OrphansAreKnown

-----------------------------------------------------------------------------
(* The theorems.                                                           *)

\* IInv is inductive: each action keeps it.
LEMMA Inductive == IInv /\ [Next]_vars => IInv'
<1> SUFFICES ASSUME IInv, [Next]_vars
             PROVE  IInv'
  OBVIOUS
<1>1. TypeOK'
  BY TypeStep DEF IInv
<1>2. ASSUME Next
      PROVE  Core'
  BY <1>2, InsmodKeeps, RegisterRegionKeeps, AllocRegionKeeps,
     CallSucceedsKeeps, CallFailsKeeps, InitReturnsZeroKeeps, RmmodKeeps,
     ReleaseKeeps, FreeModuleKeeps, OpenKeeps, CloseKeeps
  DEF Next, ModuleStep
<1>3. ASSUME UNCHANGED vars
      PROVE  Core'
  BY <1>3 DEF vars, IInv, Core, DriverInv, Loading, Loaded, Unwinding, Going,
     Resting, Numbered, Owed, Exclusive, OrphansAreKnown, FileInv,
     Serving, Complete, NodeReachesItsDriver
<1> QED BY <1>1, <1>2, <1>3 DEF IInv

LEMMA InitInv == Init => IInv
<1> SUFFICES ASSUME Init
             PROVE  IInv
  OBVIOUS
<1>1. TypeOK
  BY DEF Init, TypeOK, ModStates, Majors, Closed
<1>2. \A d \in Drivers : DriverInv(d)
  BY DEF Init, DriverInv, Loading, Loaded, Unwinding, Going, Resting, Numbered
<1>3. \A f \in Files : ~file[f].open
  BY DEF Init, Closed
<1>4. Exclusive /\ OrphansAreKnown /\ FileInv /\ NodeReachesItsDriver
  BY <1>3 DEF Init, Exclusive, OrphansAreKnown, FileInv,
              NodeReachesItsDriver
<1> QED BY <1>1, <1>2, <1>4 DEF IInv, Core

\* IInv holds in every reachable state.
LEMMA Invariance == Spec => []IInv
  BY InitInv, Inductive, PTL DEF Spec

\* Loading and unloading leave every open file on its driver, and every other
\* one closed: the module's end marks its files, and moves none.
LEMMA ModuleKeepsFiles ==
  ASSUME TypeOK, NEW d \in Drivers, Insmod(d) \/ Rmmod(d) \/ ModuleStep(d),
         NEW f \in Files
  PROVE  /\ file'[f].open <=> file[f].open
         /\ file[f].open => file'[f].drv = file[f].drv
  <1>1. CASE FreeModule(d) /\ file[f].open
    <2>1. file[f] \in Opened
      BY <1>1 DEF TypeOK, Closed
    <2>2. /\ [file[f] EXCEPT !.live = FALSE].open = file[f].open
          /\ [file[f] EXCEPT !.live = FALSE].drv = file[f].drv
      BY <2>1 DEF Opened
    <2>3. file'[f] \in {file[f], [file[f] EXCEPT !.live = FALSE]}
      BY <1>1 DEF FreeModule
    <2> QED BY <2>2, <2>3
  <1>2. CASE FreeModule(d) /\ ~file[f].open
    BY <1>2 DEF FreeModule
  <1>3. CASE \/ Insmod(d) \/ Rmmod(d) \/ RegisterRegion(d) \/ AllocRegion(d)
             \/ CallSucceeds(d) \/ CallFails(d) \/ InitReturnsZero(d)
             \/ Release(d)
    BY <1>3 DEF Insmod, Rmmod, RegisterRegion, AllocRegion, CallSucceeds,
       CallFails, InitReturnsZero, Release
  <1> QED BY <1>1, <1>2, <1>3 DEF ModuleStep

\* Every error path and exit function of the seven drivers, run in any order
\* with the others, releases what was taken, but for etx's cdev after a failed
\* load and the memory that spi_char never frees; and every exit function has
\* released all that it releases when it returns.
THEOREM LeftoversSafe == Spec => []LeftoversAreKnown
<1>1. IInv => LeftoversAreKnown
  <2> SUFFICES ASSUME IInv, NEW d \in Drivers,
                      mod[d] = "going", pc[d] > Len(cleanup[d])
               PROVE  held[d] = NeverFreed(d)
    BY DEF IInv, Core, OrphansAreKnown, LeftoversAreKnown, NeverFreed
  <2>1. Owed(d) = {}
    BY DEF IInv, TypeOK, Owed
  <2> QED BY <2>1 DEF IInv, Core, DriverInv, Going
<1> QED BY <1>1, Invariance, PTL

\* The extent of what spi_char leaves: once its load is complete its memory is
\* held to the end of the exit function, and so lost at each unload.
SpiCharKeepsItsMemory ==
  \A d \in Drivers :
    d = "spi_char" /\ mod[d] \in {"live", "going"} => "memory" \in held[d]

\* Every unload of spi_char leaks the cdev that its load has allocated.
THEOREM SpiCharLeaks == Spec => []SpiCharKeepsItsMemory
<1>1. IInv => SpiCharKeepsItsMemory
  <2> SUFFICES ASSUME IInv, NEW d \in Drivers,
                      d = "spi_char", mod[d] \in {"live", "going"}
               PROVE  "memory" \in held[d]
    BY DEF SpiCharKeepsItsMemory
  <2>1. "memory" \in Taken(d, Len(InitCode[d]) + 1)
    BY SpiCharSound DEF CodeIsSound, NeverFreed
  <2> QED BY <2>1 DEF IInv, Core, DriverInv, Loaded, Going, Optional, NeverFreed
<1> QED BY <1>1, Invariance, PTL

\* No file that is open on a protected driver outlives the driver's code; one of
\* esp32 does only when it is unloaded, one of etx only when its load fails.
THEOREM OpenFilesSafe == Spec => []OpenFilesRunLoadedCode
<1>1. IInv => OpenFilesRunLoadedCode
  BY DEF IInv, Core, FileInv, Serving, Complete, OpenFilesRunLoadedCode
<1> QED BY <1>1, Invariance, PTL

\* A cdev or /dev node never outlives the major number it stands on, except
\* on the error path of etx.
THEOREM NumberSafe == Spec => []NumberOutlivesItsUses
<1>1. IInv => NumberOutlivesItsUses
  BY DEF IInv, Core, DriverInv, Numbered, Uses, NumberOutlivesItsUses
<1> QED BY <1>1, Invariance, PTL

\* The node device_create made opens its own driver, or etx's leftover cdev.
THEOREM NodeSafe == Spec => []NodeReachesItsDriver
<1>1. IInv => NodeReachesItsDriver
  BY DEF IInv, Core
<1> QED BY <1>1, Invariance, PTL

\* The null dereference in spi_char's error path strands a number only.
THEOREM FaultSafe == Spec => []FaultStrandsOnlyTheNumber
<1>1. IInv => FaultStrandsOnlyTheNumber
  BY DEF IInv, Core, DriverInv, Resting, FaultStrandsOnlyTheNumber
<1> QED BY <1>1, Invariance, PTL

\* A driver whose init has returned 0 is the only one an open of its number
\* reaches.
THEOREM LookupSafe == Spec => []LiveDriverIsReached
<1>1. IInv => LiveDriverIsReached
  <2> SUFFICES ASSUME IInv, NEW d \in Drivers \ {"i2c"}, mod[d] = "live"
               PROVE  Lookup(devnum[d]) = {[drv |-> d, live |-> TRUE]}
    BY DEF LiveDriverIsReached
  <2> DEFINE m == devnum[d]
  <2>1. "region" \in held[d] /\ "cdev" \in held[d]
    BY DriverSound DEF IInv, Core, DriverInv, Loaded, CodeIsSound, Optional
  <2>2. [drv |-> d, live |-> TRUE] \in Owning(m)
    BY <2>1 DEF Owning, Mapped
  <2>3. ASSUME NEW e \in Owning(m)
        PROVE  e = [drv |-> d, live |-> TRUE]
    <3>1. PICK c \in Drivers : /\ "cdev" \in held[c] /\ devnum[c] = m
                               /\ e = [drv |-> c, live |-> TRUE]
      BY DEF Owning, Mapped
    <3>2. "region" \in held[c]
      BY <3>1 DEF Owning
    <3> QED BY <2>1, <3>1, <3>2 DEF IInv, Core, Exclusive
  <2> QED BY <2>2, <2>3 DEF Lookup
<1> QED BY <1>1, Invariance, PTL

\* The counterexample to I2cNodeOpens is one state in which the node of the
\* i2c driver leads nowhere.  It never leads to the driver: no open does,
\* whichever number the driver has and whatever else is loaded.
I2cIsNeverOpened ==
  \A f \in Files : file[f].open => file[f].drv # "i2c"

\* The handlers in i2c_char_driver_fops of I2c_driver_test.c are never called.
THEOREM I2cNeverReached == Spec => []I2cIsNeverOpened
<1>1. IInv => I2cIsNeverOpened
  BY DEF IInv, Core, FileInv, Unprotected, NamesOwner, I2cIsNeverOpened
<1> QED BY <1>1, Invariance, PTL

-----------------------------------------------------------------------------
(* The protected drivers implement ModuleContract.                         *)

\* The refinement mapping of CharDrivers: the modules in memory and who uses
\* them.
Present == {d \in Protected : mod[d] # "unloaded"}
UsedBy  == [f \in Files |->
              IF file[f].open /\ file[f].drv \in Protected
                THEN file[f].drv ELSE NoModule]

\* A step that neither loads nor frees a protected driver, nor opens or
\* closes a file, is a step in which the contract's state stays as it is.
LEMMA Unseen ==
  ASSUME TypeOK, NEW d \in Drivers, mod[d] # "unloaded", NEW st,
         st # "unloaded",
         mod' = [mod EXCEPT ![d] = st], file' = file
  PROVE  Present' = Present /\ UsedBy' = UsedBy
<1>1. \A e \in Drivers : mod'[e] = "unloaded" <=> mod[e] = "unloaded"
  BY DEF TypeOK
<1>2. Present' = Present
  BY <1>1 DEF Present, Protected
<1> QED BY <1>2 DEF UsedBy

\* Every step of the drivers and processes is a step of the contract.
LEMMA ContractStep ==
  ASSUME IInv, [Next]_vars
  PROVE  [Contract!Next]_(Contract!vars)
<1> USE DEF IInv, Core
<1> SUFFICES \/ Present' = Present /\ UsedBy' = UsedBy
             \/ \E d \in Protected : Contract!Load(d) \/ Contract!Unload(d)
             \/ \E f \in Files : \/ Contract!Leave(f)
                                 \/ \E d \in Protected : Contract!Use(f, d)
  BY DEF Contract!Next, Contract!vars, Present, UsedBy
<1> USE DEF Contract!Load, Contract!Unload, Contract!Use, Contract!Leave
<1>1. ASSUME NEW d \in Drivers, Insmod(d)
      PROVE  \/ Present' = Present /\ UsedBy' = UsedBy
             \/ d \in Protected /\ Contract!Load(d)
  <2>1. UsedBy' = UsedBy
    BY <1>1 DEF Insmod, UsedBy
  <2>2. Present' = Present \cup ({d} \cap Protected)
    BY <1>1 DEF Insmod, Present, Protected, TypeOK
  <2> QED BY <2>1, <2>2 DEF Present, UsedBy
<1>2. ASSUME NEW d \in Drivers,
             \/ Rmmod(d) \/ RegisterRegion(d) \/ AllocRegion(d)
             \/ CallSucceeds(d) \/ CallFails(d) \/ InitReturnsZero(d)
             \/ Release(d)
      PROVE  Present' = Present /\ UsedBy' = UsedBy
  <2>1. CASE mod' = mod /\ file' = file
    BY <2>1 DEF Present, UsedBy
  <2>2. CASE Rmmod(d)
    BY <2>2, Unseen DEF Rmmod
  <2>3. CASE CallFails(d)
    <3>1. mod[d] = "coming" /\ file' = file
      BY <2>3 DEF CallFails, AtCall
    <3>2. \/ mod' = mod
          \/ mod' = [mod EXCEPT ![d] = "unwinding"]
          \/ mod' = [mod EXCEPT ![d] = "stuck"]
      BY <2>3 DEF CallFails
    <3> QED BY <2>1, <3>1, <3>2, Unseen
  <2>4. CASE InitReturnsZero(d)
    BY <2>4, Unseen DEF InitReturnsZero
  <2> QED BY <1>2, <2>1, <2>2, <2>3, <2>4
          DEF RegisterRegion, AllocRegion, CallSucceeds, Release
<1>3. ASSUME NEW d \in Drivers, FreeModule(d)
      PROVE  \/ Present' = Present /\ UsedBy' = UsedBy
             \/ d \in Protected /\ Contract!Unload(d)
  <2>1. ASSUME NEW f \in Files
        PROVE  /\ file'[f].open = file[f].open
               /\ file[f].open => file'[f].drv = file[f].drv
    <3>1. CASE file[f].open /\ file[f].drv = d
      <4>1. file'[f] = [file[f] EXCEPT !.live = FALSE]
        BY <1>3, <3>1 DEF FreeModule
      <4>2. file[f] \in Opened
        BY <3>1 DEF TypeOK, Closed
      <4> QED BY <4>1, <4>2 DEF Opened
    <3>2. CASE ~(file[f].open /\ file[f].drv = d)
      BY <1>3, <3>2 DEF FreeModule
    <3> QED BY <3>1, <3>2
  <2>2. UsedBy' = UsedBy
    BY <2>1 DEF UsedBy
  <2>3. Present' = Present \ {d}
    BY <1>3 DEF FreeModule, Present, Protected, TypeOK
  <2>4. ASSUME d \in Protected, NEW f \in Files
        PROVE  UsedBy[f] # d
    <3>1. ~Complete(d)
      BY <1>3 DEF FreeModule, Complete
    <3>2. d # NoModule
      BY DriversAssumption DEF AllDrivers, NoModule
    <3> QED
      BY <2>4, <3>1, <3>2 DEF FileInv, Serving, Unprotected, UsedBy, Protected
  <2> QED BY <2>2, <2>3, <2>4 DEF Present, UsedBy
<1>4. ASSUME NEW f \in Files, NEW n \in Node, Open(f, n)
      PROVE  \/ Present' = Present /\ UsedBy' = UsedBy
             \/ \E d \in Protected : Contract!Use(f, d)
  <2>1. PICK e \in Lookup(MajorOf(n)) :
          file' = [file EXCEPT ![f] = [open |-> TRUE, via  |-> n,
                                       drv  |-> e.drv, live |-> e.live]]
    BY <1>4 DEF Open
  <2>2. /\ e.drv \in Drivers
        /\ e.live => "cdev" \in held[e.drv]
        /\ ~e.live => e.drv = "etx"
    BY Found DEF OrphansAreKnown
  <2>3. ~file[f].open /\ UNCHANGED mod
    BY <1>4 DEF Open
  <2>4. Present' = Present
    BY <2>3 DEF Present
  <2>5. UsedBy[f] = NoModule
    BY <2>3 DEF UsedBy
  <2>6. UsedBy' = [UsedBy EXCEPT ![f] =
                     IF e.drv \in Protected THEN e.drv ELSE NoModule]
    BY <2>1 DEF UsedBy, TypeOK
  <2>7. CASE e.drv \in Protected
    <3>1. e.drv \in Present
      BY <2>2, <2>7 DEF Present, Protected, Unprotected, DriverInv, Resting
    <3> QED BY <2>4, <2>5, <2>6, <2>7, <3>1 DEF Present, UsedBy
  <2>8. CASE e.drv \notin Protected
    BY <2>4, <2>5, <2>6, <2>8 DEF UsedBy
  <2> QED BY <2>7, <2>8
<1>5. ASSUME NEW f \in Files, Close(f)
      PROVE  Contract!Leave(f)
  <2>1. Present' = Present
    BY <1>5 DEF Close, Present
  <2>2. UsedBy' = [UsedBy EXCEPT ![f] = NoModule]
    BY <1>5 DEF Close, Closed, UsedBy, TypeOK
  <2> QED BY <2>1, <2>2 DEF Present, UsedBy
<1>6. ASSUME UNCHANGED vars
      PROVE  Present' = Present /\ UsedBy' = UsedBy
  BY <1>6 DEF vars, Present, UsedBy
<1> QED BY <1>1, <1>2, <1>3, <1>4, <1>5, <1>6 DEF Next, ModuleStep

\* The protected drivers keep the promise of ModuleContract: a file can be
\* opened only on a module in memory, and a module in use is never freed.
THEOREM ContractKept == Spec => ImplementsContract
<1>1. Init => Contract!Init
  BY DEF Init, Contract!Init, Closed, Protected
<1>2. IInv /\ [Next]_vars => [Contract!Next]_(Contract!vars)
  BY ContractStep
<1> QED BY <1>1, <1>2, Invariance, PTL
     DEF Spec, Contract!Spec, ImplementsContract

\* What the contract promises, read in the drivers' state: a module that
\* anybody uses is in memory.
UsedArePresent == \A f \in Files : UsedBy[f] # NoModule => UsedBy[f] \in Present

\* ModuleContract is worth keeping: whoever keeps it frees no module in use.
THEOREM ContractPromise == ImplementsContract => []UsedArePresent
<1>1. Contract!Init => UsedArePresent
  BY DEF Contract!Init, UsedArePresent, UsedBy
<1>2. UsedArePresent /\ [Contract!Next]_(Contract!vars) => UsedArePresent'
  <2> SUFFICES ASSUME UsedArePresent, [Contract!Next]_(Contract!vars),
                      NEW f \in Files, UsedBy'[f] # NoModule
               PROVE  UsedBy'[f] \in Present'
    BY DEF UsedArePresent
  <2>1. CASE UNCHANGED <<Present, UsedBy>>
    BY <2>1 DEF UsedArePresent
  <2>2. ASSUME NEW d \in Protected, Contract!Load(d) \/ Contract!Unload(d)
        PROVE  UsedBy'[f] \in Present'
    <3>1. UsedBy' = UsedBy
      BY <2>2 DEF Contract!Load, Contract!Unload, UsedBy
    <3>2. \/ Present' = Present \cup {d}
          \/ Present' = Present \ {d} /\ UsedBy[f] # d
      BY <2>2 DEF Contract!Load, Contract!Unload, UsedBy, Present
    <3> QED BY <3>1, <3>2 DEF UsedArePresent
  <2>3. ASSUME NEW g \in Files,
               Contract!Leave(g) \/ \E d \in Protected : Contract!Use(g, d)
        PROVE  UsedBy'[f] \in Present'
    <3>1. Present' = Present
      BY <2>3 DEF Contract!Leave, Contract!Use, Present
    <3>2. CASE f = g
      <4>1. PICK d \in Protected : Contract!Use(g, d)
        BY <2>3, <3>2 DEF Contract!Leave, UsedBy
      <4> QED BY <3>1, <3>2, <4>1 DEF Contract!Use, UsedBy, Present
    <3>3. CASE f # g
      BY <2>3, <3>1, <3>3
      DEF Contract!Leave, Contract!Use, UsedBy, UsedArePresent
    <3> QED BY <3>2, <3>3
  <2> QED
    BY <2>1, <2>2, <2>3 DEF Contract!Next, Contract!vars, Present, UsedBy
<1> QED BY <1>1, <1>2, PTL DEF ImplementsContract, Contract!Spec

-----------------------------------------------------------------------------
(* Init and exit code come to their ends: the safety behind InitReturns.   *)
(* A module runs its init code, then perhaps a list of releases, and in    *)
(* each of the two every step of its own leaves less to be done.           *)

Stage(d) ==
  IF mod[d] = "coming" THEN 2
  ELSE IF mod[d] \in {"unwinding", "going"} THEN 1 ELSE 0

\* The calls or releases that are left, and the return.
Left(d) ==
  (IF mod[d] = "coming" THEN Len(InitCode[d]) ELSE Len(cleanup[d])) + 1 - pc[d]

\* No step of any driver or process sets the running code of d back, so that
\* it takes finitely many steps of its own, whatever the others do between.
CodeAdvances ==
  [][\A d \in Drivers : Stage(d) > 0 =>
       /\ Left(d) \in Nat
       /\ \/ UNCHANGED <<mod[d], pc[d], cleanup[d]>>
          \/ Stage(d)' < Stage(d)
          \/ Stage(d)' = Stage(d) /\ Left(d)' < Left(d)]_vars

\* The one driver whose insmod may never return is spi_char, which faults.
OnlySpiCharSticks ==
  \A d \in Drivers : mod[d] = "stuck" => d = "spi_char"

WithinCleanup ==
  \A d \in Drivers :
    mod[d] \in {"unwinding", "going"} => pc[d] <= Len(cleanup[d]) + 1

EndInv == WithinCleanup /\ OnlySpiCharSticks

\* The steps that run code of d leave the other drivers' code where it is.
LEMMA CodeOfOne ==
  ASSUME TypeOK, NEW d \in Drivers, Insmod(d) \/ Rmmod(d) \/ ModuleStep(d),
         NEW e \in Drivers, e # d
  PROVE  UNCHANGED <<mod[e], pc[e], cleanup[e]>>
BY DEF TypeOK, Insmod, Rmmod, ModuleStep, RegisterRegion, AllocRegion,
       CallSucceeds, CallFails, InitReturnsZero, Release, FreeModule

\* A call of d's init code, made or failed, is one of those in its table.
LEMMA CallInTable ==
  ASSUME TypeOK, NEW d \in Drivers, NEW c, AtCall(d, c)
  PROVE  /\ mod[d] = "coming"
         /\ pc[d] \in 1..Len(InitCode[d])
         /\ Len(InitCode[d]) \in Nat
         /\ InitCode[d][pc[d]].undo \in Seq(Registrations)
         /\ InitCode[d][pc[d]].fail = "oops" => d = "spi_char"
<1>1. CodeIsSound(d) /\ Len(InitCode[d]) \in Nat
  BY DriverSound
<1>2. mod[d] = "coming" /\ pc[d] \in 1..Len(InitCode[d])
  BY <1>1 DEF AtCall, TypeOK
<1>3. InitCode[d][pc[d]] \in CallEntry /\ StepIsSound(d, pc[d])
  BY <1>1, <1>2 DEF CodeIsSound
<1> QED BY <1>1, <1>2, <1>3 DEF CallEntry, StepIsSound

\* What a step of d's code does to its place.
LEMMA CodeMoves ==
  ASSUME IInv, EndInv, NEW d \in Drivers, ModuleStep(d)
  PROVE  /\ Left(d) \in Nat
         /\ \/ Stage(d)' < Stage(d)
            \/ Stage(d)' = Stage(d) /\ Left(d)' < Left(d)
         /\ mod'[d] \in {"unwinding", "going"} => pc'[d] <= Len(cleanup'[d]) + 1
         /\ mod'[d] = "stuck" => d = "spi_char"
<1> USE DEF IInv, TypeOK, Stage, Left
<1>1. CASE RegisterRegion(d) \/ AllocRegion(d) \/ CallSucceeds(d)
  <2>1. PICK c : AtCall(d, c)
    BY <1>1 DEF RegisterRegion, AllocRegion, CallSucceeds
  <2>2. mod' = mod /\ pc' = [pc EXCEPT ![d] = @ + 1] /\ cleanup' = cleanup
    BY <1>1 DEF RegisterRegion, AllocRegion, CallSucceeds
  <2> QED BY <2>1, <2>2, CallInTable
<1>2. CASE CallFails(d)
  <2> DEFINE step == InitCode[d][pc[d]]
  <2>1. PICK c : AtCall(d, c)
    BY <1>2 DEF CallFails
  <2>2. /\ mod[d] = "coming"
        /\ pc[d] \in 1..Len(InitCode[d])
        /\ Len(InitCode[d]) \in Nat
        /\ step.undo \in Seq(Registrations)
        /\ step.fail = "oops" => d = "spi_char"
    BY <2>1, CallInTable
  <2>3. CASE /\ mod' = [mod EXCEPT ![d] = "unwinding"]
             /\ cleanup' = [cleanup EXCEPT ![d] = step.undo]
             /\ pc' = [pc EXCEPT ![d] = 1]
    <3>1. Len(step.undo) \in Nat
      BY <2>2
    <3> QED BY <2>2, <2>3, <3>1
  <2>4. CASE pc' = [pc EXCEPT ![d] = @ + 1] /\ UNCHANGED <<mod, cleanup>>
    BY <2>2, <2>4
  <2>5. CASE /\ step.fail = "oops"
             /\ mod' = [mod EXCEPT ![d] = "stuck"]
             /\ UNCHANGED <<pc, cleanup>>
    BY <2>2, <2>5
  <2> QED BY <1>2, <2>3, <2>4, <2>5 DEF CallFails
<1>3. CASE InitReturnsZero(d)
  <2>1. Len(InitCode[d]) \in Nat
    BY DriverSound
  <2>2. pc[d] = Len(InitCode[d]) + 1
    BY <1>3, <2>1 DEF InitReturnsZero, Core, DriverInv, Loading
  <2> QED BY <1>3, <2>1, <2>2 DEF InitReturnsZero
<1>4. CASE Release(d)
  <2>1. Len(cleanup[d]) \in Nat
    OBVIOUS
  <2> QED BY <1>4, <2>1 DEF Release
<1>5. CASE FreeModule(d)
  <2>1. Len(cleanup[d]) \in Nat
    OBVIOUS
  <2>2. pc[d] = Len(cleanup[d]) + 1
    BY <1>5, <2>1 DEF FreeModule, EndInv, WithinCleanup
  <2>3. /\ mod[d] \in {"unwinding", "going"}
        /\ mod' = [mod EXCEPT ![d] = "unloaded"]
    BY <1>5 DEF FreeModule
  <2>4. Stage(d) = 1 /\ Stage(d)' = 0 /\ mod'[d] = "unloaded"
    BY <2>3
  <2>5. Left(d) = Len(cleanup[d]) + 1 - pc[d]
    BY <2>3
  <2> HIDE DEF IInv, TypeOK, Stage, Left
  <2>6. Left(d) = 0
    BY <2>1, <2>2, <2>5
  <2> QED BY <2>4, <2>6
<1> QED BY <1>1, <1>2, <1>3, <1>4, <1>5 DEF ModuleStep

\* What any step does to the code that runs for d.
LEMMA AnyMoves ==
  ASSUME IInv, EndInv, [Next]_vars, NEW d \in Drivers
  PROVE  \/ UNCHANGED <<mod[d], pc[d], cleanup[d]>>
         \/ Stage(d) = 0 /\ mod'[d] = "coming"
         \/ Stage(d) = 0 /\ mod'[d] = "going" /\ pc'[d] = 1
         \/ ModuleStep(d)
<1>1. CASE UNCHANGED vars
  BY <1>1 DEF vars
<1>2. ASSUME NEW f \in Files, Close(f) \/ \E n \in Node : Open(f, n)
      PROVE  UNCHANGED <<mod[d], pc[d], cleanup[d]>>
  BY <1>2 DEF Close, Open
<1>3. ASSUME NEW e \in Drivers, e # d, Insmod(e) \/ Rmmod(e) \/ ModuleStep(e)
      PROVE  UNCHANGED <<mod[d], pc[d], cleanup[d]>>
  BY <1>3, CodeOfOne DEF IInv
<1>4. CASE Insmod(d)
  BY <1>4 DEF Insmod, IInv, TypeOK, Stage
<1>5. CASE Rmmod(d)
  BY <1>5 DEF Rmmod, IInv, TypeOK, Stage
<1> QED BY <1>1, <1>2, <1>3, <1>4, <1>5 DEF Next

LEMMA EndStep ==
  ASSUME IInv, EndInv, [Next]_vars
  PROVE  EndInv'
<1> SUFFICES ASSUME NEW d \in Drivers
             PROVE  /\ mod'[d] \in {"unwinding", "going"} =>
                         pc'[d] <= Len(cleanup'[d]) + 1
                    /\ mod'[d] = "stuck" => d = "spi_char"
  BY DEF EndInv, WithinCleanup, OnlySpiCharSticks
<1>1. CASE UNCHANGED <<mod[d], pc[d], cleanup[d]>>
  BY <1>1 DEF EndInv, WithinCleanup, OnlySpiCharSticks
<1>2. CASE mod'[d] = "coming"
  BY <1>2
<1>3. CASE mod'[d] = "going" /\ pc'[d] = 1
  <2>1. Len(cleanup'[d]) \in Nat
    BY TypeStep DEF IInv, TypeOK
  <2> QED BY <1>3, <2>1
<1>4. CASE ModuleStep(d)
  BY <1>4, CodeMoves
<1> QED BY <1>1, <1>2, <1>3, <1>4, AnyMoves

LEMMA EndInvariance == Spec => []EndInv
<1>1. Init => EndInv
  BY DEF Init, EndInv, WithinCleanup, OnlySpiCharSticks
<1>2. IInv /\ EndInv /\ [Next]_vars => EndInv'
  BY EndStep
<1> QED BY <1>1, <1>2, Invariance, PTL DEF Spec

\* Whatever the other drivers and processes do, an init function, an error
\* path and an exit function only move towards their end.
THEOREM CodeEnds == Spec => CodeAdvances
<1> DEFINE A == \A d \in Drivers : Stage(d) > 0 =>
                  /\ Left(d) \in Nat
                  /\ \/ UNCHANGED <<mod[d], pc[d], cleanup[d]>>
                     \/ Stage(d)' < Stage(d)
                     \/ Stage(d)' = Stage(d) /\ Left(d)' < Left(d)
<1>1. ASSUME IInv, EndInv, [Next]_vars
      PROVE  A
  <2> SUFFICES ASSUME NEW d \in Drivers, Stage(d) > 0
               PROVE  /\ Left(d) \in Nat
                      /\ \/ UNCHANGED <<mod[d], pc[d], cleanup[d]>>
                         \/ Stage(d)' < Stage(d)
                         \/ Stage(d)' = Stage(d) /\ Left(d)' < Left(d)
    OBVIOUS
  <2>1. Left(d) \in Nat
    <3>1. CASE mod[d] = "coming"
      <4>1. Len(InitCode[d]) \in Nat /\ pc[d] \in 1..(Len(InitCode[d]) + 1)
        BY <1>1, <3>1, DriverSound DEF IInv, Core, DriverInv, Loading
      <4>2. Left(d) = Len(InitCode[d]) + 1 - pc[d]
        BY <3>1 DEF Left
      <4> QED BY <4>1, <4>2
    <3>2. CASE mod[d] \in {"unwinding", "going"}
      <4>1. /\ Len(cleanup[d]) \in Nat /\ pc[d] \in Nat
            /\ pc[d] <= Len(cleanup[d]) + 1
        BY <1>1, <3>2 DEF IInv, TypeOK, EndInv, WithinCleanup
      <4>2. Left(d) = Len(cleanup[d]) + 1 - pc[d]
        BY <3>2 DEF Left
      <4> QED BY <4>1, <4>2
    <3> QED BY <3>1, <3>2 DEF Stage
  <2>2. UNCHANGED <<mod[d], pc[d], cleanup[d]>> \/ ModuleStep(d)
    BY <1>1, AnyMoves
  <2> QED BY <1>1, <2>1, <2>2, CodeMoves
<1> QED BY <1>1, Invariance, EndInvariance, PTL DEF Spec, CodeAdvances

\* No load or unload is left half way but spi_char's, by its fault: with
\* CodeEnds, all the others come to their return.
THEOREM SticksSafe == Spec => []OnlySpiCharSticks
  BY EndInvariance, PTL DEF EndInv
===============================================================================
