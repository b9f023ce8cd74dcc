------------------------------ MODULE EtxHistory ------------------------------
(***************************************************************************)
(* What a process can count on when it shares `value' with others and      *)
(* nobody takes a lock.  Two history variables collect the stores that may *)
(* account for the bytes of `value' and of what a process has loaded: the  *)
(* register is regular byte by byte, and whole for those who are alone.    *)
(***************************************************************************)
EXTENDS EtxIoctl

VARIABLES
  stores,  \* the stores that may account for `value'
  mixed    \* mixed[p]: the stores p's ioctl may have met, its own included

hvars == <<vars, stores, mixed>>

\* What a WR_VALUE stores when nobody disturbs it.
Stored(c) == [i \in 1..W |-> IF i <= c.ok THEN c.user[i] ELSE 0]

Writers == {p \in Procs : call[p].cmd = "WR_VALUE"}

\* Byte i comes from one of the stores in S.
ByteOf(S, i) == {s[i] : s \in S}

HInit ==
  /\ Init
  /\ stores = {Zero}
  /\ mixed = [p \in Procs |-> {}]

\* A store that begins may show up in every ioctl that is under way, and
\* those of the other writers in it.
HStore(p, user, ok) ==
  /\ Enter(p, "WR_VALUE", user, ok)
  /\ LET new == Stored([user |-> user, ok |-> ok]) IN
       /\ stores' = stores \cup {new}
       /\ mixed' = [q \in Procs |->
            IF q = p THEN {new} \cup {Stored(call[r]) : r \in Writers}
            ELSE IF call[q].cmd # "none" THEN mixed[q] \cup {new}
            ELSE mixed[q]]

HLoad(p, user, ok) ==
  /\ Enter(p, "RD_VALUE", user, ok)
  /\ mixed' = [mixed EXCEPT ![p] = stores]
  /\ UNCHANGED stores

HCopy(p) ==
  /\ CopyFromUser(p) \/ CopyToUser(p)
  /\ UNCHANGED <<stores, mixed>>

\* When a store has returned, what was there before it is gone.
HReturn(p) ==
  /\ Return(p)
  /\ stores' = IF p \in Writers THEN mixed[p] ELSE stores
  /\ mixed' = [mixed EXCEPT ![p] = {}]

HReload ==
  /\ Reload
  /\ stores' = {Zero}
  /\ UNCHANGED mixed

HNext ==
  \/ \E p \in Procs : HCopy(p) \/ HReturn(p)
  \/ \E p \in Procs, user \in Word, ok \in 0..W :
       HStore(p, user, ok) \/ HLoad(p, user, ok)
  \/ HReload

HSpec == HInit /\ [][HNext]_hvars

-----------------------------------------------------------------------------
\* Each byte of `value' is that of a store which no later store has replaced:
\* the last one to return, or one that overlapped it.  After a store that
\* overlapped no other, `value' is exactly what it stored.
ValueIsExplained ==
  \A i \in 1..W : value[i] \in ByteOf(stores, i)

\* Each byte a process has loaded is one that `value' could have had during
\* its ioctl.  A load that overlaps no store returns one whole value, unless
\* the stores before it overlapped one another.
LoadIsExplained ==
  \A p \in Procs : call[p].cmd = "RD_VALUE" =>
    \A i \in 1..(call[p].at - 1) : call[p].user[i] \in ByteOf(mixed[p], i)

\* A store that no other store overlapped is in `value', whole, when it
\* returns: the next load will find it.
LoneStoreStands ==
  [][\A p \in Procs :
       HReturn(p) /\ p \in Writers /\ mixed[p] = {Stored(call[p])}
         => value = Stored(call[p])]_hvars
===============================================================================
