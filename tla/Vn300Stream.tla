---------------------------- MODULE Vn300Stream ----------------------------
(***************************************************************************)
(* The byte stream of the VN300: what sends it (the sensor on the serial   *)
(* port, or vn300_simulator on a local socket), the source that reads it   *)
(* (Vn300SerialSource, Vn300LocalSource) and Vn300BinaryParser, which      *)
(* finds the packets in it.  What is done with the samples is left to the  *)
(* module that extends this one.                                           *)
(*                                                                         *)
(* A packet is five symbols: the sync byte, a header, a payload of two and *)
(* a CRC.  A header says how long the payload is, "long" that it is longer *)
(* than the packets of this stream.  The payload "trap" looks like a sync  *)
(* byte with such a header.                                                *)
(***************************************************************************)
EXTENDS Naturals, SequencesExt

VARIABLES
  port,        (* "serial" or "local": --vn300-port or --vn300-local       *)
  link,        (* "down": unplugged, or no simulator runs; "up": it runs,  *)
               (* without the source; "on"                                 *)
  reconnect,   (* reconnectTimer_ of the local source is active            *)
  flight,      (* the symbols that are sent and not read                   *)
  buffer,      (* buffer_ of the parser                                    *)
  owed         (* history: the payloads of the intact packets that are     *)
               (* read in full and not decoded                             *)

streamVars == <<port, link, reconnect, flight, buffer, owed>>

PayloadOf == [plain |-> <<"x", "x">>, trap |-> <<"fa", "long">>]
CrcOf == [plain |-> "crcPlain", trap |-> "crcTrap"]
Kinds == {"plain", "trap"}
Symbols == {"fa", "hd", "long", "x", "crcPlain", "crcTrap", "crcBad"}

Intact == {<<"fa", "hd">> \o PayloadOf[kind] \o <<CrcOf[kind]>> : kind \in Kinds}

(* corrupt_crc_every of the simulator. *)
Corrupt == {<<"fa", "hd", "x", "x", "crcBad">>}

(* One symbol of a packet is lost on the serial line: the sync byte, or one *)
(* of the payload, so that the next packet's first byte is taken for the   *)
(* CRC.  Without the header it is as without the sync byte, and without    *)
(* the CRC as without a symbol of the payload.                             *)
Mutilated == {RemoveAt(<<"fa", "hd", "fa", "long", "crcBad">>, i) : i \in {1, 3, 4}}

(* The sensor is plugged in; the simulator may start later.  Both sources  *)
(* are reset by start(). *)
StreamReset ==
  /\ link' = IF port = "serial" THEN "on" ELSE IF link = "on" THEN "up" ELSE link
  /\ reconnect' = (port = "local")
  /\ flight' = <<>> /\ buffer' = <<>> /\ owed' = <<>>
  /\ UNCHANGED port

StreamInit ==
  /\ \/ port = "serial" /\ link = "on" /\ reconnect = FALSE
     \/ port = "local" /\ link = "down" /\ reconnect = TRUE
  /\ flight = <<>> /\ buffer = <<>> /\ owed = <<>>

-----------------------------------------------------------------------------
(* Vn300BinaryParser *)

Headers == [hd |-> 2, long |-> 4]

PacketSize(b) == 2 + Headers[b[2]] + 1

(* What the buffer begins with: the sync byte, parseHeader and the CRC. *)
Verdict(b) ==
  IF b = <<>> \/ b = <<"fa">> THEN "incomplete"
  ELSE IF b[1] # "fa" \/ b[2] \notin DOMAIN Headers THEN "invalid"
  ELSE IF Len(b) < PacketSize(b) THEN "incomplete"
  ELSE IF \E kind \in Kinds : /\ SubSeq(b, 3, PacketSize(b) - 1) = PayloadOf[kind]
                              /\ b[PacketSize(b)] = CrcOf[kind]
       THEN "intact" ELSE "invalid"

ParseWholePackets[b \in Seq(Symbols)] ==
  LET sized == Len(b) >= 2 /\ b[1] = "fa" /\ b[2] \in DOMAIN Headers
      next == ParseWholePackets[SubSeq(b, IF sized THEN PacketSize(b) + 1 ELSE 2, Len(b))]
  IN  IF Verdict(b) = "incomplete" THEN [left |-> b, out |-> <<>>]
      ELSE IF Verdict(b) = "invalid" THEN next
      ELSE [next EXCEPT !.out = <<SubSeq(b, 3, PacketSize(b) - 1)>> \o @]

Parse[b \in Seq(Symbols)] ==
  IF Verdict(b) = "incomplete" THEN [left |-> b, out |-> <<>>]
  ELSE IF Verdict(b) = "invalid" THEN Parse[Tail(b)]
  ELSE [Parse[SubSeq(b, PacketSize(b) + 1, Len(b))] EXCEPT
          !.out = <<SubSeq(b, 3, PacketSize(b) - 1)>> \o @]

(* Faulty: what is no packet is removed as a whole. *)
ConsumeWholePackets(bytes) == ParseWholePackets[bytes]

(* consume: the payloads that are found, and what is left in the buffer.   *)
(* What is no packet is searched again from its second byte.               *)
Consume(bytes) == Parse[bytes]

-----------------------------------------------------------------------------
(* The sender and the source *)

(* generatePacket and what writes it, or the sensor.  A dropped packet is  *)
(* not sent. *)
Send(packet) ==
  /\ link = "on" /\ Len(flight) <= 1
  /\ flight' = flight \o packet
  /\ UNCHANGED <<port, link, reconnect, buffer, owed>>

(* The payloads of the packets that end in these symbols: an intact CRC    *)
(* is only ever sent with its packet. *)
Completes == [crcPlain |-> <<PayloadOf["plain"]>>, crcTrap |-> <<PayloadOf["trap"]>>]

CompletedBy[symbols \in Seq(Symbols)] ==
  IF symbols = <<>> THEN <<>>
  ELSE (IF symbols[1] \in DOMAIN Completes THEN Completes[symbols[1]] ELSE <<>>)
         \o CompletedBy[Tail(symbols)]

(* readAvailable, when k symbols are there.  The history keeps what was    *)
(* not decoded, or a packet that never comes when something else was.      *)
ReadAvailable(k, reading) ==
  LET due == owed \o CompletedBy[SubSeq(flight, 1, k)]
  IN  /\ buffer' = reading.left
      /\ owed' = IF IsPrefix(reading.out, due)
                 THEN SubSeq(due, Len(reading.out) + 1, Len(due)) ELSE <<<<>>>>
      /\ UNCHANGED <<port, link, reconnect>>

(* Faulty: the timer is not started again. *)
LinkBreaksForGood ==
  /\ link = "on"
  /\ link' = "down"
  /\ flight' = <<>>
  /\ UNCHANGED <<port, reconnect, buffer, owed>>

(* The plug is pulled, the simulator ends, or it drops a client that does  *)
(* not keep up, as if it ended and was back at once.  What the parser      *)
(* holds stays there. *)
LinkBreaks ==
  /\ link = "on"
  /\ link' = "down" /\ reconnect' = (port = "local")
  /\ flight' = <<>>
  /\ UNCHANGED <<port, buffer, owed>>

SimulatorStarts ==
  /\ port = "local" /\ link = "down"
  /\ link' = "up"
  /\ UNCHANGED <<port, reconnect, flight, buffer, owed>>

(* connectToServer; where no server listens, the timer goes on. *)
ConnectToServer ==
  /\ reconnect /\ link = "up"
  /\ link' = "on" /\ reconnect' = FALSE
  /\ UNCHANGED <<port, flight, buffer, owed>>

(* isOpen of the serial port stays true when the plug is pulled. *)
Vn300Connected == port = "serial" \/ link = "on"

-----------------------------------------------------------------------------
(* Properties *)

(* No packet that arrives in full is lost, whatever comes before it and    *)
(* however it is cut into reads: it is decoded, in its turn, or is still   *)
(* in the buffer, behind something that looks like the start of a longer   *)
(* packet.  Nothing else is decoded.                                       *)
PacketsDelivered == owed = CompletedBy[buffer]
=============================================================================
