--------------------------- MODULE EtxHistory_proofs --------------------------
(***************************************************************************)
(* The properties of EtxHistory for any number of processes and any width  *)
(* of the int32_t.  The invariant says where each byte can come from while *)
(* the copies are still under way.                                         *)
(***************************************************************************)
EXTENDS EtxHistory, TLAPS

HTypeOK ==
  /\ TypeOK
  /\ stores \subseteq Word
  /\ mixed \in [Procs -> SUBSET Word]

\* A store under way is in the history of `value' and of every ioctl.
WritersAreNoted ==
  \A q \in Writers :
    /\ Stored(call[q]) \in stores
    /\ \A p \in Procs : call[p].cmd # "none" => Stored(call[q]) \in mixed[p]

\* What a store has copied so far is still its own, or a concurrent store's.
CopiedIsExplained ==
  \A p \in Writers : \A i \in 1..(call[p].at - 1) :
    value[i] \in ByteOf(mixed[p], i)

\* What a load may still find is in its history.
LoadableIsExplained ==
  \A p \in Procs : call[p].cmd = "RD_VALUE" =>
    \A i \in 1..W : value[i] \in ByteOf(mixed[p], i)

HInv ==
  /\ HTypeOK
  /\ ValueIsExplained
  /\ WritersAreNoted
  /\ CopiedIsExplained
  /\ LoadableIsExplained
  /\ LoadIsExplained

-----------------------------------------------------------------------------
\* The variables keep their types when a process enters etx_ioctl.
LEMMA EnterType ==
  ASSUME TypeOK, NEW p \in Procs, NEW cmd \in {"WR_VALUE", "RD_VALUE"},
         NEW user \in Word, NEW ok \in 0..W, Enter(p, cmd, user, ok)
  PROVE  TypeOK'
<1>1. [cmd |-> cmd, user |-> user, ok |-> ok, at |-> 1] \in Call
  BY WidthAssumption DEF Call
<1> QED BY <1>1 DEF Enter, TypeOK

\* What a step of copy_from_user does: one byte of `value' is set.
LEMMA StoreByte ==
  ASSUME TypeOK, NEW p \in Procs, CopyFromUser(p)
  PROVE  /\ p \in Writers /\ call[p].at \in 1..W
         /\ value' \in Word
         /\ value'[call[p].at] = Stored(call[p])[call[p].at]
         /\ \A i \in 1..W : i # call[p].at => value'[i] = value[i]
         /\ call'[p] = [cmd |-> "WR_VALUE", user |-> call[p].user,
                        ok |-> call[p].ok, at |-> call[p].at + 1]
         /\ \A q \in Procs : q # p => call'[q] = call[q]
<1>1. /\ call[p] \in Call /\ call[p].cmd = "WR_VALUE"
      /\ call[p].at \in 1..W
  BY WidthAssumption DEF TypeOK, CopyFromUser, Call
<1>2. call[p].user[call[p].at] \in Bytes
  BY <1>1 DEF Call, Word
<1>3. value' \in Word
  BY <1>1, <1>2, BytesAssumption DEF CopyFromUser, TypeOK, Word
<1>4. /\ value'[call[p].at] = Stored(call[p])[call[p].at]
      /\ \A i \in 1..W : i # call[p].at => value'[i] = value[i]
  BY <1>1 DEF CopyFromUser, TypeOK, Word, Stored
<1>5. /\ call'[p] = [cmd |-> "WR_VALUE", user |-> call[p].user,
                     ok |-> call[p].ok, at |-> call[p].at + 1]
      /\ \A q \in Procs : q # p => call'[q] = call[q]
  BY <1>1 DEF CopyFromUser, TypeOK, Call
<1> QED BY <1>1, <1>3, <1>4, <1>5 DEF Writers

\* What a step of copy_to_user does: one byte of the process's word is set.
LEMMA LoadByte ==
  ASSUME TypeOK, NEW p \in Procs, CopyToUser(p)
  PROVE  /\ call[p].cmd = "RD_VALUE" /\ call[p].at \in 1..W
         /\ value' = value
         /\ call'[p] = [cmd |-> "RD_VALUE",
                        user |-> [call[p].user EXCEPT ![call[p].at] =
                                    value[call[p].at]],
                        ok |-> call[p].ok, at |-> call[p].at + 1]
         /\ \A q \in Procs : q # p => call'[q] = call[q]
<1>1. /\ call[p] \in Call /\ call[p].cmd = "RD_VALUE"
      /\ call[p].at \in 1..W
  BY WidthAssumption DEF TypeOK, CopyToUser, Call
<1>2. call[p] = [cmd |-> "RD_VALUE", user |-> call[p].user,
                 ok |-> call[p].ok, at |-> call[p].at]
  BY <1>1 DEF Call
<1>3. /\ call'[p] = [cmd |-> "RD_VALUE",
                     user |-> [call[p].user EXCEPT ![call[p].at] =
                                 value[call[p].at]],
                     ok |-> call[p].ok, at |-> call[p].at + 1]
      /\ \A q \in Procs : q # p => call'[q] = call[q]
  BY <1>1, <1>2 DEF CopyToUser, TypeOK
<1> QED BY <1>1, <1>3 DEF CopyToUser

-----------------------------------------------------------------------------
(* One lemma per action.                                                   *)

\* A store enters: it is noted wherever it may show up.
LEMMA HStoreKeeps ==
  ASSUME HInv, NEW p \in Procs, NEW user \in Word, NEW ok \in 0..W,
         HStore(p, user, ok)
  PROVE  HInv'
<1> USE DEF HInv, HTypeOK
<1> DEFINE new == Stored([user |-> user, ok |-> ok])
<1>1. TypeOK'
  BY EnterType DEF HStore
<1>2. /\ call[p].cmd = "none" /\ value' = value
      /\ call'[p] = [cmd |-> "WR_VALUE", user |-> user, ok |-> ok, at |-> 1]
      /\ \A q \in Procs : q # p => call'[q] = call[q]
      /\ stores' = stores \cup {new}
      /\ mixed'[p] = {new} \cup {Stored(call[r]) : r \in Writers}
      /\ \A q \in Procs : q # p =>
           mixed'[q] = IF call[q].cmd # "none" THEN mixed[q] \cup {new}
                                               ELSE mixed[q]
  BY DEF HStore, Enter, TypeOK
<1>3. new \in Word
  BY BytesAssumption DEF Stored, Word
<1>4. \A r \in Writers : Stored(call[r]) \in Word
  BY BytesAssumption DEF Stored, Word, Writers, TypeOK, Call
<1>5. mixed' \in [Procs -> SUBSET Word]
  <2>1. ASSUME NEW q \in Procs
        PROVE  mixed'[q] \subseteq Word
    <3>1. CASE q = p
      BY <1>2, <1>3, <1>4, <3>1
    <3>2. CASE q # p
      BY <1>2, <1>3, <3>2
    <3> QED BY <3>1, <3>2
  <2> QED BY <2>1 DEF HStore
<1>6. HTypeOK'
  BY <1>1, <1>2, <1>3, <1>5
<1>7. Writers' = Writers \cup {p} /\ p \notin Writers
  BY <1>2 DEF Writers
<1>8. Stored(call'[p]) = new
  BY <1>2 DEF Stored
<1>9. ValueIsExplained'
  BY <1>2 DEF ValueIsExplained, ByteOf
<1>10. WritersAreNoted'
  <2> SUFFICES ASSUME NEW q \in Writers'
               PROVE  /\ Stored(call'[q]) \in stores'
                      /\ \A r \in Procs : call'[r].cmd # "none" =>
                           Stored(call'[q]) \in mixed'[r]
    BY DEF WritersAreNoted
  <2>1. CASE q = p
    BY <1>2, <1>8, <2>1
  <2>2. CASE q # p
    <3>1. q \in Writers /\ q \in Procs /\ call'[q] = call[q]
      BY <1>2, <1>7, <2>2 DEF Writers
    <3> QED BY <1>2, <3>1 DEF WritersAreNoted
  <2> QED BY <2>1, <2>2
<1>11. CopiedIsExplained'
  <2> SUFFICES ASSUME NEW q \in Writers', NEW i \in 1..(call'[q].at - 1)
               PROVE  value[i] \in ByteOf(mixed'[q], i)
    BY <1>2 DEF CopiedIsExplained
  <2>1. q # p
    BY <1>2
  <2>2. q \in Writers /\ q \in Procs /\ mixed[q] \subseteq mixed'[q]
    BY <1>2, <1>7, <2>1 DEF Writers
  <2> QED BY <1>2, <2>1, <2>2 DEF CopiedIsExplained, ByteOf
<1>12. ASSUME NEW q \in Procs, call'[q].cmd = "RD_VALUE"
       PROVE  /\ call'[q] = call[q]
              /\ \A i \in 1..W :
                   ByteOf(mixed[q], i) \subseteq ByteOf(mixed'[q], i)
  <2>1. q # p
    BY <1>2, <1>12
  <2>2. mixed[q] \subseteq mixed'[q]
    BY <1>2, <2>1
  <2> QED BY <1>2, <2>1, <2>2 DEF ByteOf
<1>13. LoadableIsExplained'
  BY <1>2, <1>12 DEF LoadableIsExplained
<1>14. LoadIsExplained'
  <2> SUFFICES ASSUME NEW q \in Procs, call'[q].cmd = "RD_VALUE",
                      NEW i \in 1..(call'[q].at - 1)
               PROVE  call'[q].user[i] \in ByteOf(mixed'[q], i)
    BY DEF LoadIsExplained
  <2>1. i \in 1..W
    BY <1>1, WidthAssumption DEF TypeOK, Call
  <2> QED BY <1>12, <2>1 DEF LoadIsExplained
<1> QED BY <1>6, <1>9, <1>10, <1>11, <1>13, <1>14

\* A load enters: it may meet all that `value' may hold.
LEMMA HLoadKeeps ==
  ASSUME HInv, NEW p \in Procs, NEW user \in Word, NEW ok \in 0..W,
         HLoad(p, user, ok)
  PROVE  HInv'
<1> USE DEF HInv, HTypeOK
<1>1. TypeOK'
  BY EnterType DEF HLoad
<1>2. /\ call[p].cmd = "none" /\ value' = value /\ stores' = stores
      /\ call'[p] = [cmd |-> "RD_VALUE", user |-> user, ok |-> ok, at |-> 1]
      /\ mixed'[p] = stores
      /\ \A q \in Procs : q # p => call'[q] = call[q] /\ mixed'[q] = mixed[q]
  BY DEF HLoad, Enter, TypeOK
<1>3. HTypeOK'
  BY <1>1, <1>2 DEF HLoad
<1>4. Writers' = Writers /\ p \notin Writers
  BY <1>2 DEF Writers
<1>5. ValueIsExplained'
  BY <1>2 DEF ValueIsExplained
<1>6. WritersAreNoted'
  BY <1>2, <1>4 DEF WritersAreNoted, Writers
<1>7. CopiedIsExplained'
  BY <1>2, <1>4 DEF CopiedIsExplained, Writers
<1>8. LoadableIsExplained'
  BY <1>2 DEF LoadableIsExplained, ValueIsExplained
<1>9. LoadIsExplained'
  BY <1>2 DEF LoadIsExplained
<1> QED BY <1>3, <1>5, <1>6, <1>7, <1>8, <1>9

\* One byte of a store: its source is noted in every ioctl under way.
LEMMA StoreByteKeeps ==
  ASSUME HInv, NEW p \in Procs, CopyFromUser(p), UNCHANGED <<stores, mixed>>
  PROVE  HInv'
<1> USE DEF HInv, HTypeOK
<1> DEFINE k == call[p].at
           mine == Stored(call[p])
<1>1. /\ p \in Writers /\ k \in 1..W
      /\ value' \in Word /\ value'[k] = mine[k]
      /\ \A i \in 1..W : i # k => value'[i] = value[i]
      /\ call'[p] = [cmd |-> "WR_VALUE", user |-> call[p].user,
                     ok |-> call[p].ok, at |-> k + 1]
      /\ \A q \in Procs : q # p => call'[q] = call[q]
  BY StoreByte
<1>2. TypeOK'
  <2>1. call'[p] \in Call
    BY <1>1, WidthAssumption DEF TypeOK, Call
  <2>2. call' \in [Procs -> Call]
    BY <1>1, <2>1 DEF TypeOK, CopyFromUser
  <2> QED BY <1>1, <2>2 DEF TypeOK
<1>3. Writers' = Writers
  BY <1>1 DEF Writers
<1>4. \A q \in Writers : q \in Procs /\ Stored(call'[q]) = Stored(call[q])
  BY <1>1 DEF Writers, Stored
<1>5. mine \in stores
  BY <1>1 DEF WritersAreNoted
<1>6. \A q \in Procs : call[q].cmd # "none" => mine \in mixed[q]
  BY <1>1 DEF WritersAreNoted
<1>7. ValueIsExplained'
  BY <1>1, <1>5 DEF ValueIsExplained, ByteOf
<1>8. WritersAreNoted'
  <2>1. \A q \in Procs : call'[q].cmd = call[q].cmd
    BY <1>1 DEF Writers
  <2> QED BY <1>3, <1>4, <2>1 DEF WritersAreNoted
<1>9. CopiedIsExplained'
  <2> SUFFICES ASSUME NEW q \in Writers, NEW i \in 1..(call'[q].at - 1)
               PROVE  value'[i] \in ByteOf(mixed[q], i)
    BY <1>3 DEF CopiedIsExplained
  <2>1. q \in Procs /\ call[q].cmd = "WR_VALUE" /\ call'[q] \in Call
    BY <1>2 DEF Writers, TypeOK
  <2>2. i \in 1..W
    BY <2>1, WidthAssumption DEF Call
  <2>3. CASE i = k
    BY <1>1, <1>6, <2>1, <2>3 DEF ByteOf
  <2>4. CASE i # k
    <3>1. i \in 1..(call[q].at - 1)
      BY <1>1, <2>1, <2>4
    <3> QED BY <1>1, <2>2, <2>4, <3>1 DEF CopiedIsExplained
  <2> QED BY <2>3, <2>4
<1>10. LoadableIsExplained'
  <2> SUFFICES ASSUME NEW q \in Procs, call'[q].cmd = "RD_VALUE",
                      NEW i \in 1..W
               PROVE  value'[i] \in ByteOf(mixed[q], i)
    BY DEF LoadableIsExplained
  <2>1. call[q].cmd = "RD_VALUE"
    BY <1>1
  <2>2. CASE i = k
    BY <1>1, <1>6, <2>1, <2>2 DEF ByteOf
  <2>3. CASE i # k
    BY <1>1, <2>1, <2>3 DEF LoadableIsExplained
  <2> QED BY <2>2, <2>3
<1>11. LoadIsExplained'
  BY <1>1 DEF LoadIsExplained
<1> QED BY <1>2, <1>7, <1>8, <1>9, <1>10, <1>11

\* One byte of a load.
LEMMA LoadByteKeeps ==
  ASSUME HInv, NEW p \in Procs, CopyToUser(p), UNCHANGED <<stores, mixed>>
  PROVE  HInv'
<1> USE DEF HInv, HTypeOK
<1> DEFINE k == call[p].at
<1>1. /\ call[p].cmd = "RD_VALUE" /\ k \in 1..W /\ value' = value
      /\ call'[p] = [cmd |-> "RD_VALUE",
                     user |-> [call[p].user EXCEPT ![k] = value[k]],
                     ok |-> call[p].ok, at |-> k + 1]
      /\ \A q \in Procs : q # p => call'[q] = call[q]
  BY LoadByte
<1>2. TypeOK'
  <2>1. [call[p].user EXCEPT ![k] = value[k]] \in Word
    BY <1>1 DEF TypeOK, Call, Word
  <2>2. call'[p] \in Call
    BY <1>1, <2>1, WidthAssumption DEF TypeOK, Call
  <2>3. call' \in [Procs -> Call]
    BY <1>1, <2>2 DEF TypeOK, CopyToUser
  <2> QED BY <1>1, <2>3 DEF TypeOK
<1>3. Writers' = Writers /\ p \notin Writers
  BY <1>1 DEF Writers
<1>4. ValueIsExplained'
  BY <1>1 DEF ValueIsExplained
<1>5. WritersAreNoted'
  BY <1>1, <1>3 DEF WritersAreNoted, Writers
<1>6. CopiedIsExplained'
  BY <1>1, <1>3 DEF CopiedIsExplained, Writers
<1>7. LoadableIsExplained'
  BY <1>1 DEF LoadableIsExplained
<1>8. LoadIsExplained'
  <2> SUFFICES ASSUME NEW q \in Procs, call'[q].cmd = "RD_VALUE",
                      NEW i \in 1..(call'[q].at - 1)
               PROVE  call'[q].user[i] \in ByteOf(mixed[q], i)
    BY DEF LoadIsExplained
  <2>1. CASE q # p
    BY <1>1, <2>1 DEF LoadIsExplained
  <2>2. CASE q = p
    <3>1. call[p].user \in [1..W -> Bytes]
      BY DEF TypeOK, Call, Word
    <3>2. i \in 1..k
      BY <1>1, <2>2
    <3>3. CASE i = k
      <4>1. call'[p].user[i] = value[k]
        <5>1. call'[p].user = [call[p].user EXCEPT ![k] = value[k]]
          BY <1>1
        <5> QED BY <1>1, <3>1, <3>3, <5>1
      <4>2. value[k] \in ByteOf(mixed[p], k)
        BY <1>1 DEF LoadableIsExplained
      <4> QED BY <2>2, <3>3, <4>1, <4>2
    <3>4. CASE i # k
      <4>1. i \in 1..(k - 1) /\ call'[p].user[i] = call[p].user[i]
        BY <1>1, <3>1, <3>2, <3>4
      <4> QED BY <1>1, <2>2, <4>1 DEF LoadIsExplained
    <3> QED BY <3>3, <3>4
  <2> QED BY <2>1, <2>2
<1> QED BY <1>2, <1>4, <1>5, <1>6, <1>7, <1>8

\* A store that has copied all its bytes accounts, with those it met, for all
\* of `value'.
LEMMA HReturnKeeps ==
  ASSUME HInv, NEW p \in Procs, HReturn(p)
  PROVE  HInv'
<1> USE DEF HInv, HTypeOK
<1>1. /\ value' = value /\ CopyDone(call[p])
      /\ call'[p] = Idle /\ mixed'[p] = {}
      /\ \A q \in Procs : q # p => call'[q] = call[q] /\ mixed'[q] = mixed[q]
      /\ stores' = IF p \in Writers THEN mixed[p] ELSE stores
  BY DEF HReturn, Return, TypeOK
<1>2. HTypeOK'
  <2>1. Idle \in Call
    BY WidthAssumption, BytesAssumption DEF Idle, Zero, Call, Word
  <2>2. TypeOK'
    BY <1>1, <2>1 DEF TypeOK, HReturn, Return
  <2>3. mixed' \in [Procs -> SUBSET Word]
    BY DEF HReturn
  <2> QED BY <1>1, <2>2, <2>3
<1>3. Writers' = Writers \ {p}
  BY <1>1 DEF Writers, Idle
<1>4. ValueIsExplained'
  <2>1. CASE p \in Writers
    <3>1. call[p].at = W + 1
      BY <1>1, <2>1, WidthAssumption DEF Writers, CopyDone, TypeOK, Call
    <3>2. 1..(call[p].at - 1) = 1..W
      BY <3>1, WidthAssumption
    <3> QED BY <1>1, <2>1, <3>2 DEF CopiedIsExplained, ValueIsExplained
  <2>2. CASE p \notin Writers
    BY <1>1, <2>2 DEF ValueIsExplained
  <2> QED BY <2>1, <2>2
<1>5. WritersAreNoted'
  <2> SUFFICES ASSUME NEW q \in Writers \ {p}
               PROVE  /\ Stored(call'[q]) \in stores'
                      /\ \A r \in Procs : call'[r].cmd # "none" =>
                           Stored(call'[q]) \in mixed'[r]
    BY <1>3 DEF WritersAreNoted
  <2>1. q \in Procs /\ call'[q] = call[q]
    BY <1>1 DEF Writers
  <2>2. \A r \in Procs : call[r].cmd # "none" => Stored(call[q]) \in mixed[r]
    BY DEF WritersAreNoted
  <2>3. Stored(call[q]) \in stores'
    BY <1>1, <2>2 DEF WritersAreNoted, Writers
  <2>4. ASSUME NEW r \in Procs, call'[r].cmd # "none"
        PROVE  Stored(call[q]) \in mixed'[r]
    BY <1>1, <2>2, <2>4 DEF Idle
  <2> QED BY <2>1, <2>3, <2>4
<1>6. CopiedIsExplained'
  BY <1>1, <1>3 DEF CopiedIsExplained, Writers
<1>7. LoadableIsExplained'
  BY <1>1 DEF LoadableIsExplained, Idle
<1>8. LoadIsExplained'
  BY <1>1 DEF LoadIsExplained, Idle
<1> QED BY <1>2, <1>4, <1>5, <1>6, <1>7, <1>8

\* A reload starts over with 0, when no process is in the driver.
LEMMA HReloadKeeps ==
  ASSUME HInv, HReload
  PROVE  HInv'
<1> USE DEF HInv, HTypeOK
<1>1. /\ \A q \in Procs : call[q].cmd = "none"
      /\ value' = Zero /\ stores' = {Zero} /\ call' = call /\ mixed' = mixed
  BY DEF HReload, Reload
<1>2. Zero \in Word
  BY BytesAssumption DEF Zero, Word
<1>3. HTypeOK'
  BY <1>1, <1>2 DEF TypeOK
<1>4. ValueIsExplained'
  BY <1>1 DEF ValueIsExplained, ByteOf
<1>5. Writers' = {}
  BY <1>1 DEF Writers
<1> QED BY <1>1, <1>3, <1>4, <1>5 DEF WritersAreNoted, CopiedIsExplained,
                                      LoadableIsExplained, LoadIsExplained

\* HInv is inductive.
LEMMA HInductive == HInv /\ [HNext]_hvars => HInv'
<1> SUFFICES ASSUME HInv, [HNext]_hvars
             PROVE  HInv'
  OBVIOUS
<1>1. ASSUME HNext
      PROVE  HInv'
  BY <1>1, HStoreKeeps, HLoadKeeps, StoreByteKeeps, LoadByteKeeps,
     HReturnKeeps, HReloadKeeps DEF HNext, HCopy
<1>2. ASSUME UNCHANGED hvars
      PROVE  HInv'
  BY <1>2 DEF hvars, vars, HInv, HTypeOK, TypeOK, ValueIsExplained,
     WritersAreNoted, Writers, CopiedIsExplained, LoadableIsExplained,
     LoadIsExplained
<1> QED BY <1>1, <1>2

\* HInv holds in every reachable state.
LEMMA HInvariance == HSpec => []HInv
<1>1. HInit => HInv
  <2> SUFFICES ASSUME HInit
               PROVE  HInv
    OBVIOUS
  <2>1. Zero \in Word /\ Idle \in Call
    BY WidthAssumption, BytesAssumption DEF Zero, Word, Idle, Call
  <2>2. HTypeOK
    BY <2>1 DEF HTypeOK, HInit, Init, TypeOK
  <2>3. \A p \in Procs : call[p].cmd = "none"
    BY DEF HInit, Init, Idle
  <2>4. Writers = {}
    BY <2>3 DEF Writers
  <2>5. ValueIsExplained
    BY DEF HInit, Init, ValueIsExplained, ByteOf
  <2> QED BY <2>2, <2>3, <2>4, <2>5 DEF HInv, WritersAreNoted,
          CopiedIsExplained, LoadableIsExplained, LoadIsExplained
<1> QED BY <1>1, HInductive, PTL DEF HSpec

\* The history variables add nothing to what the driver does.
THEOREM HistoryOnly == HSpec => Spec
<1>1. HInit => Init
  BY DEF HInit
<1>2. [HNext]_hvars => [Next]_vars
  <2>1. ASSUME NEW p \in Procs, HCopy(p) \/ HReturn(p)
        PROVE  Next
    BY <2>1 DEF HCopy, HReturn, Handler, Next
  <2>2. ASSUME NEW p \in Procs, NEW user \in Word, NEW ok \in 0..W,
               HStore(p, user, ok) \/ HLoad(p, user, ok)
        PROVE  Next
    BY <2>2 DEF HStore, HLoad, Next
  <2>3. HReload => Next
    BY DEF HReload, Next
  <2>4. UNCHANGED hvars => UNCHANGED vars
    BY DEF hvars
  <2> QED BY <2>1, <2>2, <2>3, <2>4 DEF HNext
<1> QED BY <1>1, <1>2, PTL DEF HSpec, Spec

\* The handlers of any number of processes keep the types of the driver.
THEOREM EtxTypeCorrect == HSpec => []TypeOK
<1>1. HInv => TypeOK
  BY DEF HInv, HTypeOK
<1> QED BY <1>1, HInvariance, PTL

\* Unlocked copy_from_user calls of any number of processes leave in each
\* byte of `value' what the last store, or one that overlapped it, put there.
THEOREM EtxValueExplained == HSpec => []ValueIsExplained
<1>1. HInv => ValueIsExplained
  BY DEF HInv
<1> QED BY <1>1, HInvariance, PTL

\* An unlocked copy_to_user returns, byte by byte, what `value' could hold.
THEOREM EtxLoadExplained == HSpec => []LoadIsExplained
<1>1. HInv => LoadIsExplained
  BY DEF HInv
<1> QED BY <1>1, HInvariance, PTL

\* A store that no other overlapped is whole when its ioctl returns.
THEOREM EtxLoneStoreStands == HSpec => LoneStoreStands
<1>1. ASSUME HInv, NEW p \in Procs, HReturn(p), p \in Writers,
             mixed[p] = {Stored(call[p])}
      PROVE  value = Stored(call[p])
  <2>1. call[p].at = W + 1
    BY <1>1, WidthAssumption DEF HInv, HTypeOK, TypeOK, Call, HReturn, Return,
                                 CopyDone, Writers
  <2>2. \A i \in 1..W : value[i] = Stored(call[p])[i]
    <3>1. 1..(call[p].at - 1) = 1..W
      BY <2>1, WidthAssumption
    <3> QED BY <1>1, <3>1 DEF HInv, CopiedIsExplained, ByteOf
  <2>3. value = [i \in 1..W |-> value[i]]
    BY <1>1 DEF HInv, HTypeOK, TypeOK, Word
  <2> QED BY <2>2, <2>3 DEF Stored
<1>2. HInv => \A p \in Procs :
        HReturn(p) /\ p \in Writers /\ mixed[p] = {Stored(call[p])}
          => value = Stored(call[p])
  BY <1>1
<1> QED BY <1>2, HInvariance, PTL DEF LoneStoreStands
===============================================================================
