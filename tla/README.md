# The Linux device drivers in TLA+

The repository is a collection of small Linux kernel modules (character, I2C,
SPI, USB, UART and network drivers) and of user-space programs that talk to
such devices. This directory holds TLA+ models of them, the TLC
configurations that check the models on small instances, and TLAPS proofs of
their safety properties for every value of the constants.

Several of the sources do not compile as they stand: `MyWi-fiDriver.c` uses a
`cdev` it does not declare, `netSpi.c` breaks off inside a string at line 82,
`net_eth.c` fills in `.ndo_rx` and `.ndo_tx`, which `net_device_ops` does not
have. They are modelled as their text says they run: an undeclared `cdev` is
the driver's cdev, and `.ndo_rx` is called with each received packet. In
`netSpi.c` lines 83 to 85 are missing, in the middle of assignments to a header,
and the rest follows. Where the text dereferences a null pointer (`CharSpiKS.c:54`,
`netSpi.c:116`, where `dev_queue_xmit` gets a packet whose `dev` nothing sets)
the models have the call die there; where it hands an object of the wrong type
to a function (`CharSpiKS.c:23`, the `dev_err` calls of `netSpi.c`, the socket calls
of `Wifi-userSpace.c` on a cache) they have it die or go on.

## Inventory

| Component | Source | State it keeps | Operations |
|---|---|---|---|
| Character driver lifecycle | `MyBlutooth_Device_Driver.c`, `Wi-fi_device_driver.c`, `MyCanDriver.c`, `MyWi-fiDriver.c`, `CharSpiKS.c`, `Ioctl_kernel_device_driver.c`, `I2c_driver_test.c` | a `dev_t`, a cdev, a class, a device; through the kernel, the table of majors and the cdev map | `module_init`, `module_exit`, open, release; `spi_char_read` transfers and copies, the other reads and writes are stubs |
| `etx_ioctl` | `Ioctl_kernel_device_driver.c` | `int32_t value` | `WR_VALUE`, `RD_VALUE` |
| Ethernet driver | `net_eth.c` | a registered `net_device`; the skbs it is given | init, exit, receive, transmit |
| SPI network driver | `netSpi.c` | `my_spi_dev` | init, exit, open, stop, transmit |
| SPI bus driver | `Spi_kernel_space_test_v1_1.c` | `spi_dev`; messages on the stacks of its callers | init, exit, probe, remove, `spi_read`, `spi_write` |
| Probing of I2C, USB and UART | `I2c_driver_test.c`, `USB_device_driver_v1_1.c`, `UART_as_char_driver_registration.c` | `i2c_client`, which nothing reads | probe and remove, which print |
| User-space clients | `*_userSpace*.c`, `Wifi-userSpace.c`, `MyCanUserSpace.c`, `net_usp.c` | a descriptor, a buffer | open or socket, configure, write, read, close |
| Not code | `e1000.h`, `hello_test.c`, files of links | none | none |

How they interact. The character drivers share the kernel's major numbers and
cdev map: a driver with a fixed major (252, 251, 250) can meet a driver that
was given that number dynamically, and what one leaves behind is what another
one's users find. Processes reach a driver through a `/dev` node, which
`device_create` makes for some drivers, and which for the others an
administrator makes with the `mknod` command of the comments. Processes in
`etx_ioctl` share one variable. The network stack calls the handlers of the
network drivers from any CPU and hands them skbs. The clients open the nodes,
and run the handlers of whichever driver has the number then.

What is hard in this code:

* Failure in the middle of an init function, and the order in which its error
  path and the exit function undo it. No two of the seven drivers do it alike.
* Interleavings: an open while init or exit runs, two modules loading at
  once, two processes in one ioctl, handlers on several CPUs.
* Stale references: a cdev in freed module memory, a `mknod` node whose number
  has moved on, an skb used after it is freed, a device pointer after remove.
* Copies between user and kernel space that fault half way.
* Calls that sleep inside a module (a read in its SPI transfer) while rmmod asks
  for it.
* A transmit handler with two packets and a buffer at once, and an open and a
  stop that do not undo each other.
* Calls that die half way, with what they hold and the locks they run under.

What makes each component correct: a driver that is gone has left nothing
behind (nothing but what its code is known to forget) and no open file of it
survives; its number outlives all that refers to
it; an open reaches the driver its node names; a byte read through the ioctl
was stored by somebody and has not been replaced since; every skb has one
owner at a time and is freed once; a bus driver's pointer names a bound device
or nothing, and no message outlives the function that built it; a client
closes what it opened on every path and prints only what it received.

## Modules

| Module | What it is |
|---|---|
| `DriverCode` | init and exit code of the seven character drivers, as tables of kernel calls with their error paths |
| `CharDrivers` | the drivers loaded side by side; extends `DriverCode` |
| `ModuleContract` | abstract: a module in use is never unloaded; `CharDrivers` implements it for the drivers that protect their users |
| `SpiCharReads` | `CharDrivers` with processes inside `spi_char_read`; extends it |
| `WifiNode` | `Wi-fi_userSpace.c` at the node of `MyWi-fiDriver.c`: composes `CharDrivers`, which it extends, with an instance of `Clients` |
| `EtxIoctl` | `etx_ioctl`, byte by byte |
| `EtxHistory` | `EtxIoctl` with history variables that say which stores may account for what is read |
| `NetEth` | `net_eth.c`: handlers, skbs, kernel buffers |
| `NetSpi` | `netSpi.c`: the interface, its SPI device, and the transmit handler with its two packets |
| `SpiDriver` | `Spi_kernel_space_test_v1_1.c`: probe and remove around one pointer, synchronous transfers |
| `DevicePointer` | abstract: what a driver with one global device pointer promises; `SpiDriver` implements it |
| `ClientCode` | the nine user-space programs, as tables of calls with their error paths |
| `Clients` | a process that runs those programs; extends `ClientCode` |
| `MCCharDrivers`, `MCEtxHistory` | symmetry sets for TLC |
| `CharDrivers_proofs`, `SpiCharReads_proofs`, `WifiNode_proofs`, `EtxHistory_proofs`, `NetEth_proofs`, `NetSpi_proofs`, `SpiDriver_proofs`, `Clients_proofs` | theorems and proofs, each about the module of its name; `CharDrivers_proofs` also about the tables of `DriverCode`, `Clients_proofs` about those of `ClientCode` |

Operators with a suffix such as `RxDrop_NoFree` are variants of the definition
that follows them with a plausible mistake in it. They are no part of any
specification; put in place of the definition, each makes a property fail, and
`PROJECT.json` lists which.

### DriverCode and CharDrivers

An entry of `InitCode[d]` is one kernel call of the driver's `module_init`
function, in order, with what the code does when it fails: `Try(call, undo)`
returns the error after the releases of the label the code jumps to,
`Unchecked` goes on, `Faulting` dereferences a null pointer (`CharSpiKS.c:54`),
`Void` cannot fail. `ExitCode[d]` is the order of the releases in `module_exit`.

spi_char's cdev is the one that is allocated, and it is two registrations:
`"kobj"`, the reference that `cdev_alloc` returns, and `"memory"`, which is there to
be leaked from line 65 on. `cdev_init` gives the kobject the type of a cdev that
is not on the heap, so that neither the `kobject_put` of line 73 nor the `cdev_del`
of line 80 frees it when they drop the reference: no list of releases has
`"memory"` in it.

| Action | Code |
|---|---|
| `Insmod` | the module is loaded; a fixed-major driver sets its `dev_t` by `MKDEV` |
| `RegisterRegion`, `AllocRegion` | `register_chrdev_region` of the fixed major, if free; `alloc_chrdev_region` of any free one |
| `CallSucceeds`, `CallFails` | any other call; any call fails and its error path begins |
| `InitReturnsZero` | the module is live |
| `Rmmod` | refused while an open file pins a module that names itself `.owner` |
| `Release`, `FreeModule` | one release of an exit function or error path; the memory goes, and what was not released becomes an orphan |
| `Open`, `Close` | a process; the lookup finds the number's owner, or an orphan |

State: `mod` and `pc` say where each module is, `cleanup` what it is undoing,
`devnum` is its `dev_t`, `held` what it has registered, `orphans` what gone
modules left, `file` what each open file leads to. The log calls, the read and
write stubs (which return a length and touch nothing) and the printed names
are left out.

### SpiCharReads

`CharSpiKS.c` has the one read handler of a character driver that does something.
`Read` is `read(2)` on an open file of spi_char up to the sleep in the transfer,
`TransferSucceeds` and `TransferFails` the return of `spi_transfer` (a buffer, or
null). The message of line 23 takes what it finds in a super_block for a device:
after it the read returns `-EFAULT`, or the process has died in it, and its file
is closed with it or stays open for good (`"dead"`). `CopyToUser` is the copy, whole or faulting, with the `kfree` of
either path. `reading[f]` and `data[f]` say where the call on slot f is and how
many buffers it holds. A call holds its file, so that `CloseIdle` is
`CharDrivers!Close` with nobody inside. All other steps are those of `CharDrivers`;
`ReadersKeepSpec` proves it.

### WifiNode

The client of `Wi-fi_userSpace.c` is `Clients` with one program, in one of the
slots of `CharDrivers`. The program's own steps (`Alone`) leave the drivers alone;
each of its calls is a step of both: `OpensNode` is `Clients!Call` and
`CharDrivers!Open` on the node that `mknod /dev/myWi-Fi 245 0.` made, `StubWrite`
and `StubRead` are served by a stub (a write takes all it is given, a read
returns 0), `NoHandler` is the `-EINVAL` of a driver without the handler (esp32
has neither, spi_char no write), `ClosesNode` is close on the way through or on
an error path, `DiesInDriver` is a call whose code has been freed. `Others` are the
modules and the other processes.

The client's descriptor and the slot are two pieces of state, one kept by the
program and one by the kernel; `ClientClosesItsNode` says that they agree and that
a program at its end, on whichever path, has left nothing open.

The comment's number is a fixed one and esp32 asks for a dynamic one: the client
may find esp32, etx or spi_char at it, or nobody, and that may change between
two of its runs.

### EtxIoctl and EtxHistory

`Enter` is the call; `CopyFromUser` and `CopyToUser` move one byte of
`copy_from_user` and `copy_to_user`; `Return` is the return of 0, which
comes whether the copy was whole or not; `Reload` is rmmod and insmod with
nobody inside. The parameter `ok` of a call is how many bytes at `arg` the
process may use: the copy stops there, and `copy_from_user` fills the rest of
its destination with zeros. A byte at a time is the finest interleaving that
a copy can show; a processor that moves the word at once has fewer
behaviours, so what holds here holds there.

`EtxHistory` adds `stores`, the stores that may account for `value`, and
`mixed[p]`, the stores that p's ioctl may have met. They constrain nothing:
`HistoryOnly` proves it.

### NetEth

A handler is a sequence of places (`rx_check`, `rx_parse`, `rx_icmp`,
`rx_free`, `tx_check`, `tx_end`) on a CPU; between two of them the other CPUs run. An skb
is free, on the stack's queue, or the driver's. `RxDrop` is both early returns
of `my_netdev_rx`, `RxCopy`, `RxParse` and `RxFree` its way through,
`RxIcmp` the step to the third header when the protocol byte says ICMPv6,
`TxRefuse` the early return of `my_netdev_tx`, `TxEdit` its edits and `TxEnd`
its end, which has neither a free nor a return statement. The value the stack
sees there is whatever is in the register, so `TxEnd` allows both readings:
the packet was taken, or it is to be sent again. `Receive`, `Enqueue`,
`Transmit` and `Drop` are the stack, as the driver uses it. Of the contents of
a packet only its length and its ttl are kept; the headers that are printed,
and the destination address that is overwritten, have no part in any property.

### NetSpi

`Open` and `Stop` are `my_netdev_open` and `my_netdev_close`: the first looks a
device up by its number, the second takes it off its bus and keeps the pointer.
`Register` and `Exit` are the module's functions; unregistering an interface that
is up stops it. `Plug` and `Pull` are the world's: a device is registered under the
number, or its controller goes without a word to the driver; `Devs` are the
devices that have the number one after the other. The stack calls open, stop
and exit under one lock, and stops an interface only when no transmit runs; it
runs one transmit at a time, under the lock of the queue.

The transmit handler (the code calls it `my_netdev_rx`) is `Transmit`, then
`TransferSucceeds` or `TransferFails`, `AllocSucceeds` or `AllocFails`, `Send`.
`xmit` has its place and its two packets: the one it was given, which no path
frees, and the one it makes. `Send` fills the headers in and calls
`dev_queue_xmit`, which dereferences the null `new_skb->dev` (line 116): the call is
`"dead"` from there on, its `kfree` and its return are never reached, and the lock of
the transmit queue stays taken, so that no other transmit, stop or exit follows.
`data` counts the buffers of `spi_transfer`. The `dev_err` of lines 25, 51 and 62 is
given a `net_device` for a `device`; `ReturnsOrDies` is the handler after it, and an
open that dies there leaves the interface `"stuck"` with the stack's lock. The bytes
of the headers are left out.

### SpiDriver

`Probe` and `Remove` are the two handlers, `Register` and `Unregister` the init
and exit functions; `Unload` is the return of `spi_unregister_driver`, and the
module's pointer goes with it. `Attach` and `Detach` are the bus's decisions
to bind and unbind a device, `Plug` and `Unplug` the world's. The bus has one
device at a time in a handler but different devices in different handlers, so
`bind` is kept by device. `Transfer` is `spi_read` or `spi_write` up to the
sleep in `spi_sync`, `Complete` the controller, `Return` the rest of the
function. Nothing in the file calls the two functions: any thread may, while
the driver has a bound device, and a thread inside one is taken to keep the
module: that is an assumption about callers, and no property is about it. What is
transferred is left out.

`DevicePointer` has no bus and no threads: a set of devices that have been given
and one pointer. `SpiDriver` implements it with `known` the devices that are bound
or being removed and `ptr` the variable `spi_dev`: a probe is a `Give`, a remove a
`TakeBack`, everything else, reloads too, a stutter. `NetSpi` does not implement it,
since its pointer outlives the device.

### ClientCode and Clients

An entry of `Code[p]` is one call of program p: the resources it needs (`on`)
and takes (`take`), which results the program takes for a failure (`fails`:
the error value, a short count as well, none, or none followed by a use of the
null pointer) and what it releases before it exits (`undo`).

| Action | Code |
|---|---|
| `Start` | `main`; a program follows another, so that all run in one instance |
| `Call` | a call that leaves the buffer alone: open, socket, tcsetattr, bind, write |
| `Fill` | the program puts its own message into its buffer |
| `ReadSome`, `ReadFrame` | a read of any count it may return; a CAN frame is whole |
| `Terminate` | `buffer[n] = 0` |
| `Show` | printf: up to the first zero byte for `%s`, a counted loop otherwise |
| `ReleaseOne` | close, free, `nlmsg_free`, `nl_socket_free` |
| `Fail`, `Undo`, `Undone` | the error path |
| `Fault` | the write through a null pointer, or a call that goes astray in an object of another kind (`Misused`) |
| `Finish` | `return 0` |

A cell of the buffer is `"junk"` (never written), `"sent"` (the program's own),
`"recv"` or `"nul"`, which is all that the properties about printing tell
apart. In `Wifi-userSpace.c` the cache overwrites the variable `nlsock`, so that
the later calls get the cache and the socket is lost. Each of these calls (send,
receive, and `nl_socket_free` on the error paths and at the end) may do what it
does, fail, or kill the program; none of them frees the entries of the cache.
Its `scan_result` is handed to nobody. The receiving half of `net_usp.c` is a comment in the source
and has no part in its table.

## Runs

| Run | Instance | Shows |
|---|---|---|
| `chardrivers_shared` | bluetooth, esp32, etx; majors 252 and 254; 2 files | leftovers, what an open reaches, the life of a number, types |
| `spichar_bus` | can, wifi, spi_char, i2c; majors 250 and 254; 1 file | leftovers and what an open reaches with the faulting path and the unchecked call, under reads from spi_char: reads run loaded code and free their buffers; every insmod returns; `ModuleContract` is implemented |
| `wifinode_safe` | the Wi-Fi client with esp32, etx and spi_char; major 245; the client's file, a buffer of 3 bytes | what drivers at the client's node can make it print, that it leaves no file open there, and where it can die |
| `chardrivers_i2cnode` | i2c | violation: the node that i2c creates leads to no driver |
| `etxhistory_safe` | 3 processes, 2 bytes of 2 values | what stores and loads that overlap can leave and return |
| `neteth_safe` | 2 skbs, 2 CPUs, lengths 33, 34 and 35, ttl modulo 2 | ownership of skbs and buffers, what is read of a packet; every received skb is freed |
| `neteth_leak` | 2 skbs, 2 CPUs | violation: a transmitted skb has no owner any more |
| `netspi_safe` | 3 packets, 3 devices in turn | the pointer across open, stop and reload; the handler's buffer and its two packets, up to the call that dies |
| `netspi_release` | 1 packet, 1 device | violation: stop takes the device off its bus |
| `spidriver_safe` | 3 devices, 2 threads | the pointer, the messages; unloads end; `DevicePointer` is implemented |
| `clients_safe` | all nine programs, a buffer of 4 bytes | what they release, keep, use and print, whichever call fails or dies |
| `clients_print` | usb, uart, scan, a buffer of 4 bytes | violation: a program prints as received what was not |

Why the bounds are enough to be of use. Drivers disturb one another through
one number at a time: with three drivers and two majors there is a driver
that takes a fixed number in the dynamic range, one that is given it, and one
that has left an orphan on it. Two files let one be open while the other is
opened anew. Three processes let a store overlap two others that do not
overlap each other; two bytes are enough for a value to be torn. The lengths
33 and 34 are the two sides of the check in `my_netdev_rx`, 35 is the first with
a byte for ICMPv6, and the ttl wraps from 0 to its greatest value after 2 as it
does after 256. With three devices
one is probed, one removed and one bound at the same time. Of the three devices
of `NetSpi` one has been stopped, one pulled, and one is there, which is all that
can become of one; its third packet is there when two are the handler's, and one
that it was given is lost at each call that returns, so that it also runs out of
packets. Deadlock is not checked in the runs of `NetSpi`: a call that has died keeps the
lock it ran under, and when every device has had its turn nothing is left to
happen. In
`wifinode_safe` the one major makes the three drivers compete for the client's
number. It has no second process: all that one could do to the client is to keep a
module loaded, and a behaviour in which nobody unloads it is there already; the
theorems of `WifiNode_proofs` have any number of others. A buffer of four bytes has room for a message, its zero, and bytes behind it that
are left over; a read can end before, at and after each of them. The proofs do
away with the bounds for every safety property that a passing run checks.

Fairness. `SpiCharReads!RFairSpec` has each module's init, exit and error code
weakly fair: it runs in the process of insmod or rmmod, which the kernel
schedules, and every call it makes returns. Loading, opening and closing are
not fair: nobody need do them, and a read may sleep in its transfer for good.
`NetEth!FairSpec` has a handler run to its end, as softirq code does.
`SpiDriver!FairSpec` has the bus finish a probe or remove it has begun and take the
devices of a driver that leaves, as `spi_unregister_driver` does before it
returns. Nobody need plug a device in, or load or unload the driver, and nothing
is asked of the controller. `NetSpi` has no fairness: its transmit may die. Init functions that fault stay where
they are, and `InitReturns` leaves spi_char out for that reason.

## What the runs found

* `I2c_driver_test.c:105`: the node is created, but no cdev is ever added, so
  that no open of it can succeed (`I2cNodeOpens`).
* `net_eth.c:85`: the comment says the skb is freed; the code ends
  (`EverySkbHasAnOwner`).
* `netSpi.c:37`: under the comment "Release SPI device" stop unregisters the device
  that open has only looked up, so that no open finds it again
  (`StoppedDeviceIsReleased`).
* `Uart_userSpace_v1_1.c:32`: an uninitialized buffer is printed as a string under
  the comment "Display received data", and no zero ends it (`PrintsReceived`).
  The USB and scan programs violate the same property: after a read of 0 bytes
  "Print the received data" prints the program's own message
  (`Usb_userSpace_test_v1_1.c:32`), and the scan result is printed whether or not
  a handler has filled it in (`Wifi-userSpace.c:96`).

Other weaknesses are built into the models, and the properties are stated
around them:

* etx forgets its cdev when `class_create` or `device_create` fails
  (`Ioctl_kernel_device_driver.c:161`);
* esp32 names no owner for its file operations (`MyWi-fiDriver.c`);
* spi_char faults when it finds no SPI device (`CharSpiKS.c:54`), and never frees the
  cdev it has allocated (`CharSpiKS.c:65`);
* `spi_char_read` and the handlers of `netSpi.c` hand `dev_err` an object that is no
  device (`CharSpiKS.c:23`, `netSpi.c:25`, `51`, `62`);
* a load through the ioctl that faults half way returns 0
  (`Ioctl_kernel_device_driver.c:116`);
* the ttl of 0 decrements to 255 (`net_eth.c:80`);
* `spi_driver_remove` clears `spi_dev` whichever device is removed, so that a bound
  device may be left without a pointer to it;
* the programs in `Careless` (`Clients`) end with something still held: spi exits
  with its descriptor open on three error paths, net_usp closes nothing and
  writes through the result of malloc unchecked, and scan has lost its socket and
  makes socket calls on a cache;
* the `mknod` comment of `MyWi-fiDriver.c:102` names a fixed number for a driver that
  asks for a dynamic one, so that the client may reach another driver; with
  esp32 itself its write fails, since that driver has no handlers
  (`WifiNode` has both happen);
* the type of an ICMPv6 packet of exactly 34 bytes is read one byte past it
  (`net_eth.c:45`);
* the transmit handler of `netSpi.c` keeps the packet it was given on every path and
  dies in the `dev_queue_xmit` of its own (line 116); stop unregisters a device that
  has left its bus once more (line 37);
* a CAN frame may fill its data without a zero, so that printf reads past its
  end.

## What is proved

Assumptions: the drivers are among the seven and the majors are numbers
(`CharDrivers`); the word has at least one byte and 0 is a byte (`EtxIoctl`);
lengths are numbers and the ttl has a positive range (`NetEth`); the null
pointer is no device (`SpiDriver`, `NetSpi`) and no packet (`NetSpi`); the
programs are among the nine (`Clients`); a buffer has at least two bytes, as the
smallest has (`Clients`, `WifiNode`); the client's slot is one of the files
(`WifiNode`). Every safety property of a passing run is a theorem.

### The properties of the runs

* `CharDrivers_proofs`, the tables. `AllSound` says of each driver
  that the error path of each call releases all that the calls before it took
  (etx's cdev and spi_char's memory apart), that every list of releases gives the
  number back after all that refers to it, and that exit releases all that init
  takes, for spi_char all but its memory. It is a proof about the code as
  written: it does not depend on what the kernel does.
* `CharDrivers_proofs`, the drivers. No property is inductive by itself: that a
  module leaves nothing behind depends on where it is in its cleanup, and what an
  open file leads to on who holds the number. `IInv` ties `held[d]` to `pc[d]`
  (loading: the calls taken; unwinding or going: what the rest of the list owes),
  says that two drivers never hold one number, and that an open file of a
  protected driver has a complete driver under it. One lemma per action shows
  that it is kept; from it follow `TypeCorrect`, `LeftoversSafe`,
  `OpenFilesSafe`, `NumberSafe`, `NodeSafe`, `FaultSafe`, `LookupSafe`, and the
  refinement `ContractKept`. `LeftoversSafe` says that nothing is left behind but etx's
  cdev and spi_char's memory, and that an exit function that has come to its end
  holds nothing, or just that memory; `OpenFilesSafe`, that of the two drivers whose
  users are unprotected esp32 loses them by rmmod only, and etx by a failed load
  only.
* `SpiCharReads_proofs`. `ReadersKeepSpec` shows that the readers refine
  `CharDrivers`, so that its invariant `IInv` holds with them. That a read runs
  loaded code (`ReadsSafe`) needs one more fact, that a file with a read inside
  is open at spi_char: then `IInv` keeps the module from going, and since cdev_add
  is the last call of its init, from unwinding. `BuffersSafe` says that every way
  out of the handler frees its buffer.
* `WifiNode_proofs`. The client is a process of `CharDrivers`, its death a close
  (`ClientKeepsSpec`), and it is a program of `Clients` but for that death
  (`ClientKeepsProgram`). `ClientSafe` follows from the first: a file whose code is
  gone is, by `IInv`, one of an unprotected driver. `ClientPrintsNothing` and
  `ClientLeavesNoFile` need `ClientInv`, since what is printed was decided two calls
  earlier, by the read: it says, call by call, that the descriptor is held exactly
  while the slot is open, that after the read `got` is 0, and that after the zero
  has been put there the text is empty.
* `EtxHistory_proofs`. That a byte of `value` is explained depends on which stores
  are still to come and on whom they overlap. `HInv` therefore adds that
  every store under way is noted in `stores` and by every process it overlaps
  (`WritersAreNoted`), that what a store has copied so far is its own or an
  overlapping store's (`CopiedIsExplained`), and that what a load may still
  find is in its own history (`LoadableIsExplained`). From it follow
  `EtxTypeCorrect`, `EtxValueExplained`, `EtxLoadExplained` and the action
  property `EtxLoneStoreStands`. `HistoryOnly` says that the history variables
  constrain nothing.
* `NetEth_proofs`. The conjunction of the four invariants is inductive: who owns
  an skb decides whether another CPU can change it under a handler. It gives
  `NetEthTypeCorrect`, `NetEthSkbOwned`, `NetEthBufferFreed` and
  `NetEthHeadersThere`.
* `NetSpi_proofs`. The four invariants together are inductive, with the added fact
  that a running handler has the packet it was given, and at the send the one it
  has made: the place of the handler decides what the stack must leave alone.
  They give `NetSpiTypeCorrect`, `NetSpiDeviceSafe`, `NetSpiDataFreed` and
  `NetSpiPacketsApart`.
* `SpiDriver_proofs`. `SpiDevSafe` needs only the types: any remove clears the
  pointer. `FrameSafe` needs that no thread has two messages in the queue, or
  waking it for the one would leave the other without a frame. With
  `SpiTypeCorrect` they hold for any number of devices and threads. `PointerKept` is
  the refinement of `DevicePointer`, from the same facts: a reload finds no device
  bound, and so `spi_dev` null already.
* `Clients_proofs`. `Had(p, k)` is what program p has before its k-th call, by its
  table alone. One lemma per program computes it, and with it that the call works
  on what is there, that its error path releases only that and, in a careful
  program, all of it, and that what is printed was received by the call before;
  `AllProgramsSound` collects them. The invariant `IInv` follows a run along the
  table: a running program has just what `Had` says (`HasWhatItTook`), a failing
  one has still to release what it holds and, if it is careful, no cache to misuse
  (`UndoesWhatItHas`), and before a print the
  buffer holds what the print relies on, up to the zero or the count
  (`BufferIsReady`). The last is what no property says by itself: the bytes are
  received in one call, ended in the next and shown in a third. It gives
  `ClientsTypeCorrect`, `ClientsReleaseAll`, `ClientsUseWhatTheyHave` and
  `ClientsPrintReceived`. `ClientsCarelessKeep`, what each program that
  `ReleasedWhenDone` exempts leaves behind after which of its calls, needs a second
  invariant, `EndsAsWritten`: along an error path, what is held without what is still
  to be released stays what the failed call made it.

### What the liveness properties rest on

Fairness and ENABLED are beyond the prover, so that the liveness properties are
model-checked only. What each of them needs of the code besides a scheduler is a
safety property, which is proved for every instance:

* `InitReturns`: `CodeEnds` says that no step of any driver or process sets the
  running code of a module back, and that each step of its own leaves less of it
  (`Stage` and `Left`, in lexicographic order); `SticksSafe`, that none but spi_char's
  load stops for good on the way.
* `ReceivedIsFreed`: `NetEthRxFrees`, a call of `my_netdev_rx` ends only by freeing
  its skb.
* `UnloadEnds`: `UnloadDrains`, while `spi_unregister_driver` waits each step of the bus
  brings a device nearer to unbound (`Rank`) and none sets one back, whatever is
  plugged in.

### The extent of what is wrong

A counterexample shows one state, and an exemption none. These theorems say how
far a weakness reaches:

* `I2cNeverReached`: no open ever reaches the i2c driver, whatever else is loaded
  (`I2cNodeOpens`).
* `NetEthOnlyTxEndLoses` and `NetEthLossIsFinal`: the end of `my_netdev_tx` is the only
  place of either handler that loses an skb, and nobody finds it again
  (`EverySkbHasAnOwner`).
* `NetSpiPacketsLost` and `NetSpiLossIsFinal`: the transmit handler of `netSpi.c` loses
  every packet that it is given, on each of its ways out, and every packet that it
  makes, in the fault of line 116, for good.
* `SpiCharLeaks`: from the end of its load to the end of its exit function spi_char
  holds the memory of its cdev, so that each unload of it leaks one.

### What the abstract specifications promise

`ContractPromise` and `PointerPromise` are about `ModuleContract` and
`DevicePointer` alone: whoever implements the first has every module in memory that
anybody uses, and whoever implements the second a pointer that is null or names a
device it has. With `ContractKept` and `PointerKept` the drivers have both.

### Only model-checked

The liveness properties `InitReturns`, `ReceivedIsFreed` and `UnloadEnds`, and the runs that end in a violation, whose
counterexamples TLC gives.

## What is not modelled

The read and write stubs, the log and `hello_test.c` change no state. The probe
handlers of the I2C, USB and UART drivers print, and the one pointer they
set, `i2c_client`, is never read; the UART driver's file operations are comments.
`e1000.h` is a copy of a kernel header without its functions. The files of links
hold no code. The bytes of the headers that the network drivers write and print
are left out. `struct device` reference counts, sysfs
and udev's delay in making a node are taken to be instantaneous.

## Plan

1. `EtxHistory`: that the two directions of the ioctl are atomic for processes
   that do not overlap, as a refinement of a register read and written at once.
2. `WifiNode`: the refinement of `Clients` for the other programs that open a
   node, at the nodes of the other drivers.
