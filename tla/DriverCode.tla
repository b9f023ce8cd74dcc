------------------------------ MODULE DriverCode ------------------------------
(***************************************************************************)
(* The load and unload code of the seven character drivers, as tables.     *)
(*                                                                         *)
(* A module_init function is a sequence of kernel calls.  Each call takes  *)
(* one registration when it succeeds; an entry says which one, and what    *)
(* the function does when the call fails: the releases of its error path,  *)
(* in the order the code makes them, before it returns the error.  A       *)
(* module_exit function is a sequence of releases.                         *)
(*                                                                         *)
(* Registrations:                                                          *)
(*   "region"  a major number   (alloc_chrdev_region,                      *)
(*                               register_chrdev_region)                   *)
(*   "cdev"    an entry of the kernel's device-number map  (cdev_add)      *)
(*   "kobj"    the reference that cdev_alloc returns (dropped by           *)
(*             kobject_put, and by cdev_del after it unmaps the entry)     *)
(*   "memory"  the cdev that cdev_alloc has allocated, from cdev_init on:   *)
(*             before, the last reference would free it, but cdev_init     *)
(*             gives it the type of a cdev that is not on the heap         *)
(*   "class"   a device class   (class_create)                             *)
(*   "device"  a device and its node under /dev  (device_create)           *)
(*   "bus"     an i2c driver on its bus  (i2c_add_driver)                  *)
(* spi_bus_find_device takes none: it is a lookup that may fail.           *)
(***************************************************************************)
EXTENDS Naturals, Sequences

AllDrivers == {"bluetooth", "wifi", "can", "esp32", "spi_char", "etx", "i2c"}

Registrations ==
  {"region", "cdev", "kobj", "memory", "class", "device", "bus"}
Calls == Registrations \cup {"spi_bus_find_device"}

\* A call whose failure makes the function run `undo' and return the error.
Try(c, undo) == [call |-> c, fail |-> "return", undo |-> undo]
\* A call whose result the code does not look at.
Unchecked(c) == [call |-> c, fail |-> "ignore", undo |-> <<>>]
\* A call whose error path dereferences a null pointer: insmod dies there.
Faulting(c)  == [call |-> c, fail |-> "oops",   undo |-> <<>>]
\* A call that cannot fail.
Void(c)      == [call |-> c, fail |-> "never",  undo |-> <<>>]

-----------------------------------------------------------------------------
(* The drivers that ask for a fixed major number.                          *)

MajorNum == [bluetooth |-> 252, wifi |-> 251, can |-> 250]

BluetoothInit_NoUnwind == << Try("region", <<>>), Try("cdev", <<>>) >>
BluetoothInit == << Try("region", <<>>), Try("cdev", <<"region">>) >>
BluetoothExit == <<"cdev", "region">>

WifiInit == << Try("region", <<>>), Try("cdev", <<"region">>) >>
WifiExit == <<"cdev", "region">>

CanInit == << Try("region", <<>>), Try("cdev", <<"region">>) >>
CanExit_ForgetsCdev == <<"region">>
CanExit == <<"cdev", "region">>

-----------------------------------------------------------------------------
(* The drivers that take whatever major number the kernel picks.           *)

\* MyWi-fiDriver.c: the node is created before the cdev is mapped.
Esp32Init_IgnoresCdevAdd ==
  << Try("region", <<>>), Try("class",  <<"region">>),
     Try("device", <<"class", "region">>), Unchecked("cdev") >>
Esp32Init ==
  << Try("region", <<>>),
     Try("class",  <<"region">>),
     Try("device", <<"class", "region">>),
     Try("cdev",   <<"device", "class", "region">>) >>
Esp32Exit_RegionFirst == <<"cdev", "region", "device", "class">>
Esp32Exit == <<"cdev", "device", "class", "region">>

\* CharSpiKS.c: line 54 reads my_cdev->dev while my_cdev is still null, so
\* the goto err_free_chrdev after it is never reached.  After the cdev_init of
\* line 65 neither kobject_put (73) nor cdev_del (80) frees my_cdev.
SpiCharInit_IgnoresCdevAdd ==
  << Try("region", <<>>), Faulting("spi_bus_find_device"),
     Try("kobj", <<"region">>), Void("memory"), Unchecked("cdev") >>
SpiCharInit ==
  << Try("region", <<>>),
     Faulting("spi_bus_find_device"),
     Try("kobj", <<"region">>),
     Void("memory"),
     Try("cdev", <<"kobj", "region">>) >>
SpiCharExit == <<"cdev", "kobj", "region">>

\* Ioctl_kernel_device_driver.c: neither r_class nor r_device deletes the
\* cdev that was added before the class and the device were asked for.
EtxInit ==
  << Try("region", <<>>),
     Try("cdev",   <<"region">>),
     Try("class",  <<"region">>),
     Try("device", <<"class", "region">>) >>
EtxExit == <<"device", "class", "cdev", "region">>

\* I2c_driver_test.c: device_create is not checked, and no cdev is added.
I2cInit_OopsOnClass ==
  << Try("bus", <<>>), Try("region", <<"bus">>), Faulting("class"),
     Unchecked("device") >>
I2cInit_KeepsBus ==
  << Try("bus", <<>>), Try("region", <<>>), Try("class",  <<"region", "bus">>),
     Unchecked("device") >>
I2cInit ==
  << Try("bus",    <<>>),
     Try("region", <<"bus">>),
     Try("class",  <<"region", "bus">>),
     Unchecked("device") >>
I2cExit == <<"device", "class", "region", "bus">>

-----------------------------------------------------------------------------
InitCode ==
  [bluetooth |-> BluetoothInit, wifi |-> WifiInit, can |-> CanInit,
   esp32 |-> Esp32Init, spi_char |-> SpiCharInit, etx |-> EtxInit,
   i2c |-> I2cInit]

ExitCode ==
  [bluetooth |-> BluetoothExit, wifi |-> WifiExit, can |-> CanExit,
   esp32 |-> Esp32Exit, spi_char |-> SpiCharExit, etx |-> EtxExit,
   i2c |-> I2cExit]

\* The drivers whose file_operations (or cdev) names THIS_MODULE as owner, so
\* that an open file counts as a use of the module.
NamesOwner_NotSpiChar == {"bluetooth", "wifi", "can", "etx"}
NamesOwner_NotBluetooth == {"wifi", "can", "spi_char", "etx"}
NamesOwner == {"bluetooth", "wifi", "can", "spi_char", "etx"}

\* The drivers whose code can vanish under an open file: esp32 names no owner,
\* so rmmod succeeds while a file is open; etx can be opened by its number
\* before class_create or device_create fails and the load is undone.
Unprotected == {"esp32", "etx"}

\* The number of /dev/myWi-Fi in the comment that tells how to make it.
MyWifiMajor == 245
===============================================================================
