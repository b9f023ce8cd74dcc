------------------------------- MODULE EtxIoctl -------------------------------
(***************************************************************************)
(* etx_ioctl of Ioctl_kernel_device_driver.c: any number of processes      *)
(* store into and load from one int32_t, `value', with the commands        *)
(* WR_VALUE and RD_VALUE.  The handler takes no lock and copies with       *)
(* copy_from_user and copy_to_user straight into and out of `value', so    *)
(* the copies of two processes interleave byte by byte.  A copy that meets *)
(* an address the process may not use stops there; the handler logs that   *)
(* and returns 0 all the same.  Any other command returns 0 and does       *)
(* nothing; it is left out.                                                *)
(***************************************************************************)
EXTENDS Naturals

CONSTANTS
  Procs,  \* the processes with the device open
  W,      \* the bytes of an int32_t (4 in the code)
  Bytes   \* the values of a byte

ASSUME WidthAssumption == W \in Nat \ {0}
ASSUME BytesAssumption == 0 \in Bytes

VARIABLES
  value,  \* the driver's `value', byte by byte
  call    \* call[p]: the ioctl that process p is in

vars == <<value, call>>

Word == [1..W -> Bytes]
Zero == [i \in 1..W |-> 0]

(* cmd   the command, or "none" when p is not in an ioctl                   *)
(* ok    how many bytes at arg, from the first, p may use                   *)
(* user  those bytes; 0 stands for the ones p may not use, and for what a   *)
(*       load has not written yet                                           *)
(* at    the byte the copy has come to                                      *)
Call == [cmd : {"none", "WR_VALUE", "RD_VALUE"}, user : Word, ok : 0..W,
         at : 1..(W + 1)]

Idle == [cmd |-> "none", user |-> Zero, ok |-> 0, at |-> 1]

TypeOK ==
  /\ value \in Word
  /\ call \in [Procs -> Call]

Init ==
  /\ value = Zero
  /\ call = [p \in Procs |-> Idle]

\* ioctl(fd, cmd, arg): p enters the handler.
Enter(p, cmd, user, ok) ==
  /\ call[p].cmd = "none"
  /\ \A i \in 1..W : i > ok \/ cmd = "RD_VALUE" => user[i] = 0
  /\ call' = [call EXCEPT ![p] = [cmd |-> cmd, user |-> user,
                                  ok  |-> ok,  at   |-> 1]]
  /\ UNCHANGED value

CopyFromUser_NoFill(p) ==
  LET c == call[p] IN
  /\ c.cmd = "WR_VALUE"
  /\ c.at <= W
  /\ value' = [value EXCEPT ![c.at] = IF c.at <= c.ok THEN c.user[c.at] ELSE @]
  /\ call' = [call EXCEPT ![p].at = @ + 1]

CopyFromUser_PastEnd(p) ==
  LET c == call[p] IN
  /\ c.cmd = "WR_VALUE"
  /\ c.at <= W + 1
  /\ value' = [i \in 1..W |-> IF i # c.at THEN value[i]
                              ELSE IF i <= c.ok THEN c.user[i] ELSE 0]
  /\ call' = [call EXCEPT ![p].at = @ + 1]

\* The next byte of copy_from_user(&value, arg, sizeof(value)).  The bytes p
\* may not use are filled with zero.
CopyFromUser(p) ==
  LET c == call[p] IN
  /\ c.cmd = "WR_VALUE"
  /\ c.at <= W
  /\ value' = [value EXCEPT ![c.at] = IF c.at <= c.ok THEN c.user[c.at] ELSE 0]
  /\ call' = [call EXCEPT ![p].at = @ + 1]

CopyToUser_FromStart(p) ==
  LET c == call[p] IN
  /\ c.cmd = "RD_VALUE"
  /\ c.at <= c.ok
  /\ call' = [call EXCEPT ![p].user[c.at] = value[1], ![p].at = @ + 1]
  /\ UNCHANGED value

\* The next byte of copy_to_user(arg, &value, sizeof(value)).
CopyToUser(p) ==
  LET c == call[p] IN
  /\ c.cmd = "RD_VALUE"
  /\ c.at <= c.ok
  /\ call' = [call EXCEPT ![p].user[c.at] = value[c.at], ![p].at = @ + 1]
  /\ UNCHANGED value

\* The copy is over, in full or not.
CopyDone(c) ==
  \/ c.cmd = "WR_VALUE" /\ c.at > W
  \/ c.cmd = "RD_VALUE" /\ c.at > c.ok

Return_ClearsOnFault(p) ==
  /\ CopyDone(call[p])
  /\ call' = [call EXCEPT ![p] = Idle]
  /\ value' = IF call[p].cmd = "WR_VALUE" /\ call[p].ok < W THEN Zero ELSE value

\* The handler returns 0, whether the copy was whole or not.
Return(p) ==
  /\ CopyDone(call[p])
  /\ call' = [call EXCEPT ![p] = Idle]
  /\ UNCHANGED value

\* rmmod and insmod, when no process is in the driver: `value' starts at 0.
Reload ==
  /\ \A p \in Procs : call[p].cmd = "none"
  /\ value' = Zero
  /\ UNCHANGED call

\* A step of the handler p is in.
Handler(p) == CopyFromUser(p) \/ CopyToUser(p) \/ Return(p)

Next ==
  \/ \E p \in Procs : Handler(p)
  \/ \E p \in Procs, cmd \in {"WR_VALUE", "RD_VALUE"}, user \in Word,
        ok \in 0..W : Enter(p, cmd, user, ok)
  \/ Reload

Spec == Init /\ [][Next]_vars
===============================================================================
