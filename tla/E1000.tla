------------------------------- MODULE E1000 -------------------------------
(***************************************************************************)
(* The Intel E1000 network driver of src/drivers/network/intel_e1000.c    *)
(* with the controller as its environment.                                 *)
(*                                                                         *)
(* The driver and the controller share two descriptor rings in memory.    *)
(* On the transmit ring the controller owns the descriptors from its head *)
(* register TDH up to, not including, the tail register TDT that the      *)
(* driver writes; it sends each one, sets its DD status bit (the driver   *)
(* asks for that with RS) and advances TDH.  On the receive ring it owns  *)
(* the descriptors from RDH up to, not including, RDT: it stores an       *)
(* arriving packet in the descriptor at RDH, sets DD and advances RDH.    *)
(* When head equals tail it owns none and sends, or stores, nothing (the  *)
(* 8254x manual, sections 3.2.6 and 3.4).  The controller's steps          *)
(* interleave with the driver's calls in every order.                     *)
(*                                                                         *)
(* e1000_init runs once, from drivers_init; it first reads the MAC from   *)
(* the EEPROM, one poll of EERD per step, the EEPROM answering or not at   *)
(* each poll.  The reset wait before it touches nothing the model keeps.  *)
(* Packets are numbered in the order they are posted (transmit) or        *)
(* arrive (receive); their bytes and lengths are left out.  The           *)
(* statistics are the lengths of the ghost sequences.                      *)
(***************************************************************************)
EXTENDS Integers, Sequences, SequencesExt

CONSTANTS
  NDesc,          \* E1000_NUM_RX_DESC = E1000_NUM_TX_DESC (32 in the code)
  MaxPkts,        \* bound on the packets posted and on the packets arriving
  EepromTimeout,  \* the initial value of e1000_read_eeprom's static timeout
  Lens            \* packet lengths callers pass to e1000_transmit

E1000_RX_BUFFER_SIZE == 2048

Desc == 0 .. NDesc - 1
MacWords == 0 .. 2
EEPROM_WORD == "word"      \* the word the EEPROM holds at an address
ZERO == "zero"             \* the 0 a timed-out read returns

VARIABLES
  pc,          \* e1000_init's progress: "eeprom", "rings", then "up"
  word,        \* the EEPROM address e1000_read_mac_addr is reading
  timeout,     \* e1000_read_eeprom's static timeout
  polls,       \* (ghost) polls without an answer in the current read
  mac,         \* the words e1000_read_mac_addr got
  waited,      \* (ghost) polls each read made before it returned
  txd,         \* tx_descs: DD status bit and the packet in the buffer
  txTail,      \* e1000_dev.tx_tail
  tdh, tdt,    \* the controller's TDH and TDT registers
  rxd,         \* rx_descs: DD status bit and the packet in the buffer
  rxHead,      \* e1000_dev.rx_head
  rxTail,      \* e1000_dev.rx_tail
  rdh, rdt,    \* the controller's RDH and RDT registers
  posted,      \* (ghost) packets e1000_transmit accepted, in order
  wire,        \* (ghost) packets the controller sent, in order
  accepted,    \* (ghost) packets the controller stored, in order
  delivered    \* (ghost) packets e1000_receive returned, in order

vars == <<pc, word, timeout, polls, mac, waited, txd, txTail, tdh, tdt,
          rxd, rxHead, rxTail, rdh, rdt, posted, wire, accepted, delivered>>
eepromVars == <<word, timeout, polls, mac, waited>>
txVars == <<txd, txTail, tdh, tdt, posted, wire>>
rxVars == <<rxd, rxHead, rxTail, rdh, rdt, accepted, delivered>>

Pkt == 0 .. MaxPkts        \* 0: no packet was ever put in the buffer
DescState == [st : {0, 1}, pkt : Pkt]
Empty == [st |-> 0, pkt |-> 0]

E1000TypeOK ==
  /\ pc \in {"eeprom", "rings", "up"}
  /\ word \in MacWords
  /\ timeout \in -3 .. EepromTimeout
  /\ polls \in 0 .. EepromTimeout
  /\ mac \in [MacWords -> {"unread", EEPROM_WORD, ZERO}]
  /\ waited \in [MacWords -> 0 .. EepromTimeout]
  /\ txd \in [Desc -> DescState] /\ rxd \in [Desc -> DescState]
  /\ {txTail, tdh, tdt, rxHead, rxTail, rdh, rdt} \subseteq Desc
  /\ \A s \in {posted, wire, accepted, delivered} : s \in Seq(1 .. MaxPkts)

\* e1000_dev is a zeroed global; e1000_init has written CTRL.RST and
\* waited for the reset, which leaves the registers at zero.
Init ==
  /\ pc = "eeprom" /\ word = 0 /\ timeout = EepromTimeout /\ polls = 0
  /\ mac = [w \in MacWords |-> "unread"] /\ waited = [w \in MacWords |-> 0]
  /\ txd = [i \in Desc |-> Empty] /\ rxd = [i \in Desc |-> Empty]
  /\ txTail = 0 /\ tdh = 0 /\ tdt = 0
  /\ rxHead = 0 /\ rxTail = 0 /\ rdh = 0 /\ rdt = 0
  /\ posted = <<>> /\ wire = <<>> /\ accepted = <<>> /\ delivered = <<>>

\* e1000_read_mac_addr: after a read returns, read the next word, or go
\* on with the rings after the third.
NextWord ==
  IF word = 2 THEN pc' = "rings" /\ word' = word
              ELSE word' = word + 1 /\ pc' = pc

\* A read returns value v after n polls of its own.
ReadReturns(v, n) ==
  /\ mac' = [mac EXCEPT ![word] = v]
  /\ waited' = [waited EXCEPT ![word] = n]
  /\ polls' = 0
  /\ NextWord

\* One poll of EERD in e1000_read_eeprom: DONE is set and the word is
\* returned, or it is not, and the static timeout is decremented; once it
\* is at most zero the read returns 0.  The static is never reset.
EepromPoll ==
  /\ pc = "eeprom"
  /\ \/ ReadReturns(EEPROM_WORD, polls) /\ UNCHANGED timeout
     \/ /\ timeout' = timeout - 1
        /\ IF timeout - 1 <= 0
             THEN ReadReturns(ZERO, polls + 1)
             ELSE polls' = polls + 1 /\ UNCHANGED <<mac, waited, word, pc>>
  /\ UNCHANGED <<txVars, rxVars>>

\* Mutant: RDT set to E1000_NUM_RX_DESC, one past the ring.
InitRxPastEnd ==
  /\ rxd' = [i \in Desc |-> Empty]
  /\ rdh' = 0 /\ rdt' = NDesc
  /\ rxHead' = 0 /\ rxTail' = 0

\* e1000_init_rx: every descriptor without DD; RDH = 0, RDT = NDesc - 1,
\* while the driver's own rx_head and rx_tail are both 0.
InitRx ==
  /\ rxd' = [i \in Desc |-> Empty]
  /\ rdh' = 0 /\ rdt' = NDesc - 1
  /\ rxHead' = 0 /\ rxTail' = 0

\* e1000_init_tx: every descriptor with DD (free); TDH = TDT = 0.
InitTx ==
  /\ txd' = [i \in Desc |-> [st |-> 1, pkt |-> 0]]
  /\ tdh' = 0 /\ tdt' = 0 /\ txTail' = 0

\* The rest of e1000_init: the rings, then RCTL.EN and TCTL.EN, link up,
\* the interrupt mask, and initialized.
E1000Init ==
  /\ pc = "rings"
  /\ InitRx /\ InitTx
  /\ pc' = "up"
  /\ UNCHANGED <<eepromVars, posted, wire, accepted, delivered>>

\* Mutant: the "TX ring full" check left out.
TransmitNoDoneCheck(len) ==
  /\ pc = "up"
  /\ len <= E1000_RX_BUFFER_SIZE
  /\ Len(posted) < MaxPkts
  /\ LET id == Len(posted) + 1 IN
       /\ txd' = [txd EXCEPT ![txTail] = [st |-> 0, pkt |-> id]]
       /\ posted' = Append(posted, id)
  /\ txTail' = (txTail + 1) % NDesc
  /\ tdt' = (txTail + 1) % NDesc
  /\ UNCHANGED <<pc, eepromVars, tdh, wire, rxVars>>

\* e1000_transmit: refused before init, for a packet longer than the
\* buffer, and when the descriptor at tx_tail has no DD ("TX ring full");
\* otherwise the packet goes into that descriptor, DD is cleared, tx_tail
\* advances and is written to TDT.
Transmit(len) ==
  /\ pc = "up"
  /\ len <= E1000_RX_BUFFER_SIZE
  /\ txd[txTail].st = 1
  /\ Len(posted) < MaxPkts
  /\ LET id == Len(posted) + 1 IN
       /\ txd' = [txd EXCEPT ![txTail] = [st |-> 0, pkt |-> id]]
       /\ posted' = Append(posted, id)
  /\ txTail' = (txTail + 1) % NDesc
  /\ tdt' = (txTail + 1) % NDesc
  /\ UNCHANGED <<pc, eepromVars, tdh, wire, rxVars>>

\* Mutant: the descriptor's DD bit is not cleared after the copy.
ReceiveKeepsStatus ==
  /\ pc = "up"
  /\ rxd[rxHead].st = 1
  /\ delivered' = Append(delivered, rxd[rxHead].pkt)
  /\ rxd' = rxd
  /\ rxHead' = (rxHead + 1) % NDesc
  /\ rxTail' = (rxTail + 1) % NDesc
  /\ rdt' = (rxTail + 1) % NDesc
  /\ UNCHANGED <<pc, eepromVars, txVars, rdh, accepted>>

\* e1000_receive: refused before init; returns 0 when the descriptor at
\* rx_head has no DD; otherwise returns its packet, clears DD, advances
\* rx_head, and advances rx_tail and writes it to RDT.
Receive ==
  /\ pc = "up"
  /\ rxd[rxHead].st = 1
  /\ delivered' = Append(delivered, rxd[rxHead].pkt)
  /\ rxd' = [rxd EXCEPT ![rxHead].st = 0]
  /\ rxHead' = (rxHead + 1) % NDesc
  /\ rxTail' = (rxTail + 1) % NDesc
  /\ rdt' = (rxTail + 1) % NDesc
  /\ UNCHANGED <<pc, eepromVars, txVars, rdh, accepted>>

\* e1000_get_stats reports these.
packets_transmitted == Len(posted)
packets_received == Len(delivered)

\* The controller sends the descriptor at TDH while it owns one.
NicTransmit ==
  /\ pc = "up"
  /\ tdh # tdt
  /\ wire' = Append(wire, txd[tdh].pkt)
  /\ txd' = [txd EXCEPT ![tdh].st = 1]
  /\ tdh' = (tdh + 1) % NDesc
  /\ UNCHANGED <<pc, eepromVars, txTail, tdt, posted, rxVars>>

\* A packet arrives and the controller stores it at RDH while it owns a
\* descriptor (with none, it drops the packet and changes nothing here).
NicReceive ==
  /\ pc = "up"
  /\ rdh # rdt
  /\ Len(accepted) < MaxPkts
  /\ LET id == Len(accepted) + 1 IN
       /\ rxd' = [rxd EXCEPT ![rdh] = [st |-> 1, pkt |-> id]]
       /\ accepted' = Append(accepted, id)
  /\ rdh' = (rdh + 1) % NDesc
  /\ UNCHANGED <<pc, eepromVars, txVars, rxHead, rxTail, rdt, delivered>>

Next ==
  \/ EepromPoll
  \/ E1000Init
  \/ \E len \in Lens : Transmit(len)
  \/ Receive
  \/ NicTransmit
  \/ NicReceive

Spec == Init /\ [][Next]_vars

-----------------------------------------------------------------------------
\* The controller sends exactly the packets e1000_transmit accepted, in the
\* order it accepted them, none twice and none skipped: the DD check keeps
\* the driver off descriptors the controller has not sent yet, and TDT
\* never hands the controller a descriptor the driver has not filled.
TxWireInOrder == IsPrefix(wire, posted)

\* e1000_receive returns exactly the packets the controller stored, in
\* order, none twice and none lost: the driver reads only descriptors with
\* DD, clears DD when it has read one, and RDT never lets the controller
\* overwrite a packet the driver has not read.
RxDeliveredInOrder == IsPrefix(delivered, accepted)

\* When the controller owns no receive descriptor, some descriptor holds a
\* packet e1000_receive has not returned yet, whose reading hands a buffer
\* back: the driver must never leave the controller without a buffer
\* while it has nothing left to read, or reception stops for good.
RxNotWedged ==
  pc = "up" /\ rdh = rdt => \E i \in Desc : rxd[i].st = 1

\* When the controller owns no transmit descriptor (it has sent all it
\* was given), e1000_transmit finds the descriptor at tx_tail free.
TxNotWedged ==
  pc = "up" /\ tdh = tdt => txd[txTail].st = 1

\* A read of e1000_read_eeprom that gives up and returns 0 has polled the
\* EEPROM EepromTimeout times itself.
EepromReadsWait ==
  \A w \in MacWords : mac[w] = ZERO => waited[w] >= EepromTimeout

=============================================================================
