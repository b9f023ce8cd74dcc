-------------------------- MODULE SpiCharReads_proofs --------------------------
(***************************************************************************)
(* A read in spi_char keeps its file open until it returns or dies, and an *)
(* open file on a protected driver keeps its module loaded (FileInv of     *)
(* CharDrivers_proofs): so the module is there for every read, for every   *)
(* set of drivers and files.                                               *)
(***************************************************************************)
EXTENDS SpiCharReads, CharDrivers_proofs

\* A read has its file, which no step closes or moves under it: a read that
\* dies takes the file with it, or keeps it.
ReadsHaveTheirFile ==
  \A f \in Files : reading[f] # "none" =>
    file[f].open /\ file[f].drv = "spi_char"

ReadTypes ==
  /\ reading \in [Files -> {"none", "transfer", "copy", "dead"}]
  /\ data \in [Files -> Nat]

RInv == ReadTypes /\ ReadsHaveTheirFile /\ BuffersDieWithTheirReads

LEMMA RInitInv == RInit => RInv
  BY DEF RInit, RInv, ReadTypes, ReadsHaveTheirFile, BuffersDieWithTheirReads

-----------------------------------------------------------------------------
(* The composition does to the drivers what CharDrivers allows.            *)

LEMMA DriversStep == [RNext]_allVars => [Next]_vars
  <1> SUFFICES ASSUME [RNext]_allVars PROVE Next \/ UNCHANGED vars
    OBVIOUS
  <1>1. CASE UNCHANGED allVars
    BY <1>1 DEF allVars
  <1>2. ASSUME NEW d \in Drivers, Insmod(d) \/ Rmmod(d) \/ ModuleRuns(d)
        PROVE  Next
    BY <1>2 DEF Next, ModuleRuns
  <1>3. ASSUME NEW f \in Files, CloseIdle(f) \/ \E n \in Node : Open(f, n)
        PROVE  Next
    BY <1>3 DEF Next, CloseIdle
  <1>4. ASSUME NEW f \in Files, SpiCharRead(f)
        PROVE  Next \/ UNCHANGED vars
    <2>1. UNCHANGED vars \/ Close(f)
      BY <1>4
      DEF SpiCharRead, Read, TransferSucceeds, TransferFails, CopyToUser
    <2> QED BY <2>1 DEF Next
  <1> QED BY <1>1, <1>2, <1>3, <1>4 DEF RNext

\* The readers only watch, as far as loading, unloading, open and close are
\* concerned: what is proved of the drivers by themselves holds under readers.
THEOREM ReadersKeepSpec == RSpec => Spec
  BY DriversStep, PTL DEF RSpec, RInit, Spec

LEMMA DriversInvariance == RSpec => []IInv
  BY ReadersKeepSpec, Invariance, PTL

-----------------------------------------------------------------------------
\* A step of a read: its file is open when it starts, and when it closes with
\* the reader the read is over; its buffer is counted.
LEMMA ReadStep ==
  ASSUME TypeOK, RInv, NEW f \in Files, SpiCharRead(f)
  PROVE  RInv'
  <1> USE DEF RInv
  <1>1. /\ \A g \in Files \ {f} : /\ file'[g] = file[g]
                                /\ reading'[g] = reading[g]
                                /\ data'[g] = data[g]
        /\ reading' \in [Files -> {"none", "transfer", "copy", "dead"}]
    <2>1. UNCHANGED vars \/ Close(f)
      BY DEF SpiCharRead, Read, TransferSucceeds, TransferFails, CopyToUser
    <2>2. \A g \in Files \ {f} : file'[g] = file[g]
      BY <2>1 DEF vars, Close, TypeOK
    <2>3. \A g \in Files \ {f} : reading'[g] = reading[g] /\ data'[g] = data[g]
      BY DEF ReadTypes, SpiCharRead, Read, TransferSucceeds, TransferFails,
             CopyToUser
    <2>4. reading' \in [Files -> {"none", "transfer", "copy", "dead"}]
      BY DEF ReadTypes, SpiCharRead, Read, TransferSucceeds, TransferFails,
             CopyToUser
    <2> QED BY <2>2, <2>3, <2>4
  <1>2. CASE Read(f)
    BY <1>2 DEF Read, vars, ReadTypes, ReadsHaveTheirFile,
                BuffersDieWithTheirReads
  <1>3. CASE TransferSucceeds(f)
    BY <1>3 DEF TransferSucceeds, vars, ReadTypes, ReadsHaveTheirFile,
                BuffersDieWithTheirReads
  <1>4. CASE TransferFails(f)
    <2>1. /\ data' = data
          /\ reading[f] = "transfer"
          /\ reading'[f] \in {"none", "dead"}
          /\ reading'[f] = "dead" => file' = file
      BY <1>4 DEF TransferFails, ReadTypes, vars
    <2>2. ReadsHaveTheirFile'
      BY <1>1, <2>1 DEF ReadsHaveTheirFile
    <2>3. BuffersDieWithTheirReads'
      BY <1>1, <2>1 DEF BuffersDieWithTheirReads
    <2> QED BY <1>1, <2>1, <2>2, <2>3 DEF ReadTypes
  <1>5. CASE CopyToUser(f)
    BY <1>5 DEF CopyToUser, vars, ReadTypes, ReadsHaveTheirFile,
                BuffersDieWithTheirReads
  <1> QED BY <1>2, <1>3, <1>4, <1>5 DEF SpiCharRead

LEMMA RNextInv == IInv /\ RInv /\ [RNext]_allVars => RInv'
  <1> SUFFICES ASSUME IInv, RInv, [RNext]_allVars PROVE RInv'
    OBVIOUS
  <1> USE DEF RInv
  <1>1. ASSUME UNCHANGED readVars,
               \A f \in Files : reading[f] # "none" =>
                 file'[f].open /\ file'[f].drv = file[f].drv
        PROVE  RInv'
    BY <1>1 DEF readVars, ReadTypes, ReadsHaveTheirFile,
       BuffersDieWithTheirReads
  <1>2. CASE UNCHANGED allVars
    BY <1>1, <1>2 DEF allVars, vars, ReadsHaveTheirFile
  <1>3. ASSUME NEW d \in Drivers, UNCHANGED readVars,
               Insmod(d) \/ Rmmod(d) \/ ModuleStep(d)
        PROVE  RInv'
    BY <1>1, <1>3, ModuleKeepsFiles DEF IInv, ReadsHaveTheirFile
  <1>4. ASSUME NEW g \in Files, UNCHANGED readVars,
               CloseIdle(g) \/ \E n \in Node : Open(g, n)
        PROVE  RInv'
    <2>1. reading[g] = "none"
      BY <1>4 DEF CloseIdle, Open, ReadsHaveTheirFile
    <2>2. \A f \in Files : f # g => file'[f] = file[f]
      BY <1>4 DEF CloseIdle, Close, Open, IInv, TypeOK
    <2> QED BY <1>1, <1>4, <2>1, <2>2 DEF ReadsHaveTheirFile
  <1>5. ASSUME NEW f \in Files, SpiCharRead(f) PROVE RInv'
    BY <1>5, ReadStep DEF IInv
  <1> QED BY <1>2, <1>3, <1>4, <1>5 DEF RNext, ModuleRuns

LEMMA ReadInvariance == RSpec => [](IInv /\ RInv)
  BY RInitInv, RNextInv, DriversInvariance, PTL DEF RSpec

\* A process inside spi_char_read, or dead there with its file open, is in a
\* module that is loading or live, never in one that unwinds, exits or is gone.
THEOREM ReadsSafe == RSpec => []ReadsRunLoadedCode
  <1>1. IInv /\ RInv => ReadsRunLoadedCode
    BY DEF IInv, RInv, Core, FileInv, Serving, Complete, ReadsHaveTheirFile,
       Unprotected, ReadsRunLoadedCode
  <1> QED BY <1>1, ReadInvariance, PTL

\* No way out of spi_char_read leaks the buffer of its transfer, or frees it
\* twice.
THEOREM BuffersSafe == RSpec => []BuffersDieWithTheirReads
  <1>1. RInv => BuffersDieWithTheirReads
    BY DEF RInv
  <1> QED BY <1>1, ReadInvariance, PTL
===============================================================================
