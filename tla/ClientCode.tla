------------------------------ MODULE ClientCode ------------------------------
(***************************************************************************)
(* The user-space programs of the repository, as tables.                   *)
(*                                                                         *)
(* A program is a sequence of calls.  A call takes resources when it       *)
(* succeeds ("fd": a descriptor or socket; "list", "packet", "msg",        *)
(* "nlsock", "cache", and the "entries" of a cache: memory) and works on   *)
(* others.  When it fails the program releases `undo', in that order, and  *)
(* exits.                                                                  *)
(***************************************************************************)
EXTENDS Naturals, Sequences

AllPrograms == {"wifi", "usb", "uart", "i2c", "spi", "can", "bluetooth",
                "scan", "net_usp"}

Resources == {"fd", "list", "packet", "msg", "nlsock", "cache", "entries"}

\* op     what the call does to the program's buffer, see Clients
\* on     the resources it needs
\* take   those it takes
\* fails  which results the program takes for a failure:
\*          "error"  the call's error value;
\*          "short"  that, and a count less than it asked for;
\*          "never"  the result is not looked at;
\*          "fault"  nor is it, and the next line dereferences it
\* undo   what it releases then
Step(op, on, take, fails, undo) ==
  [op |-> op, on |-> on, take |-> take, fails |-> fails, undo |-> undo]

Take(r, undo)         == Step("none", {}, {r}, "error", undo)
Configure(undo)       == Step("none", {"fd"}, {}, "error", undo)
ConfigureUnchecked    == Step("none", {"fd"}, {}, "never", <<>>)
Write(fails, undo)    == Step("none", {"fd"}, {}, fails, undo)
Read(op, fails, undo) == Step(op, {"fd"}, {}, fails, undo)
Local(op)             == Step(op, {}, {}, "never", <<>>)
Drop(r)               == Step("release", {r}, {}, "never", <<>>)

-----------------------------------------------------------------------------
(* Programs that open a device node.                                       *)

\* Wi-fi_userSpace.c: reads one byte less than the buffer has.
WifiClient_FullRead ==
  << Take("fd", <<>>), Write("error", <<"fd">>),
     Read("read", "error", <<"fd">>),
     Local("terminate"), Local("show_string"), Drop("fd") >>
WifiClient_KeepsOnError ==
  << Take("fd", <<>>), Write("error", <<>>),
     Read("read_less_one", "error", <<>>),
     Local("terminate"), Local("show_string"), Drop("fd") >>
WifiClient ==
  << Take("fd", <<>>),
     Write("error", <<"fd">>),
     Read("read_less_one", "error", <<"fd">>),
     Local("terminate"),
     Local("show_string"),
     Drop("fd") >>

\* Usb_userSpace_test_v1_1.c: one buffer for what it sends and receives.
UsbClient_ClosesEarly ==
  << Take("fd", <<>>), Local("fill_text"), Write("error", <<"fd">>),
     Drop("fd"), Read("read", "error", <<"fd">>), Local("show_string") >>
UsbClient ==
  << Take("fd", <<>>),
     Local("fill_text"),
     Write("error", <<"fd">>),
     Read("read", "error", <<"fd">>),
     Local("show_string"),
     Drop("fd") >>

\* Uart_userSpace_v1_1.c.
UartClient_NoCloseOnError ==
  << Take("fd", <<>>), ConfigureUnchecked, Read("read", "error", <<>>),
     Local("show_string"), Write("error", <<"fd">>), Drop("fd") >>
UartClient ==
  << Take("fd", <<>>),
     ConfigureUnchecked,
     Read("read", "error", <<"fd">>),
     Local("show_string"),
     Write("error", <<"fd">>),
     Drop("fd") >>

\* I2c_userSpace_testV1_0.c: the counts must be exact.
I2cClient ==
  << Take("fd", <<>>),
     Configure(<<"fd">>),
     Local("fill_bytes"),
     Write("short", <<"fd">>),
     Read("read", "short", <<"fd">>),
     Local("show_bytes"),
     Drop("fd") >>

\* Spi_userSpace_test_v1_0.c: exits with the descriptor open on three of its
\* error paths.  A transfer is whole or fails.
SpiClient ==
  << Take("fd", <<>>),
     Configure(<<>>),
     Configure(<<>>),
     Read("read", "short", <<>>),
     Local("show_bytes"),
     Drop("fd") >>

-----------------------------------------------------------------------------
(* Programs that open a socket.                                            *)

\* MyCanUserSpace.c: the frame it sends is the buffer for the one it gets.
CanClient ==
  << Take("fd", <<>>),
     ConfigureUnchecked,
     Configure(<<"fd">>),
     Local("fill_text"),
     Write("short", <<"fd">>),
     Read("read_frame", "error", <<"fd">>),
     Local("show_string_if_any"),
     Drop("fd") >>

\* Bluetooth_userSpace.c: hci_inquiry returns a list it has allocated.
BluetoothClient ==
  << Take("fd", <<>>),
     Step("read", {}, {"list"}, "error", <<"fd">>),
     Local("show_counted"),
     Drop("list"),
     Drop("fd") >>

\* Wifi-userSpace.c: genl_ctrl_alloc_cache stores the cache's address in the
\* variable that held the socket's, so that from there on the socket calls,
\* nl_socket_free included, are made on the cache; none of them frees the
\* cache's entries.  The handler that fills in a wifi_scan_result is never
\* told of main's scan_result.
ScanClient_ForgetsMsg ==
  << Take("nlsock", <<>>),
     Step("none", {"nlsock"}, {}, "error", <<"nlsock">>),
     Step("none", {"nlsock"}, {"cache", "entries"}, "error", <<"nlsock">>),
     Take("msg", <<"cache">>),
     Step("none", {"msg", "cache"}, {}, "error", <<"cache">>),
     Step("none", {"cache"}, {}, "error", <<"msg", "cache">>),
     Local("show_string"), Drop("msg"), Drop("cache") >>
ScanClient ==
  << Take("nlsock", <<>>),
     Step("none", {"nlsock"}, {}, "error", <<"nlsock">>),
     Step("none", {"nlsock"}, {"cache", "entries"}, "error", <<"nlsock">>),
     Take("msg", <<"cache">>),
     Step("none", {"msg", "cache"}, {}, "error", <<"msg", "cache">>),
     Step("none", {"cache"}, {}, "error", <<"msg", "cache">>),
     Local("show_string"),
     Drop("msg"),
     Drop("cache") >>

\* net_usp.c: no check of malloc, and neither free nor close.
NetUspClient ==
  << Take("fd", <<>>),
     Step("none", {}, {"packet"}, "fault", <<>>),
     Step("none", {"fd", "packet"}, {}, "error", <<>>) >>

Code ==
  [wifi |-> WifiClient, usb |-> UsbClient, uart |-> UartClient,
   i2c |-> I2cClient, spi |-> SpiClient, can |-> CanClient,
   bluetooth |-> BluetoothClient, scan |-> ScanClient,
   net_usp |-> NetUspClient]
===============================================================================
