------------------------------ MODULE FeetechBus ------------------------------
(***************************************************************************)
(* The serial line of rerobot-hardware feetech.rs: a request is written    *)
(* and, for a ping or a read, a status packet is taken from the bytes that *)
(* arrive, first its four leading bytes and then as many as they announce. *)
(* A write or a read may fail, and what was taken by then is gone; nothing *)
(* clears the line before the next request, and a reply does not say which *)
(* request it answers.                                                     *)
(*                                                                         *)
(* Abstracted: a byte is its place in the packet it was sent in.  Bytes    *)
(* that are no packet may look like the beginning of one, of any length;   *)
(* but a checksum fits only the packet it was made for.  Writes have no    *)
(* reply and leave the line as it is.  Operators named ...Slip are not the *)
(* program.                                                                *)
(***************************************************************************)
EXTENDS Naturals, Sequences

CONSTANTS
  BusServos,   \* the servos are 1..BusServos, 6 on the arm
  MaxLoops,    \* bound: loops over the servos
  MaxFaults,   \* bound: writes and reads that fail, replies that are damaged or lost
  MaxLength,   \* the longest a packet may say that it is, 252
  NoPacket

ASSUME BusAssumption ==
  /\ BusServos \in Nat \ {0}
  /\ MaxLoops \in Nat /\ MaxFaults \in Nat /\ MaxLength \in Nat

(* Loops over all servos, and the parameters they ask of each: ping_all,   *)
(* the Phase of configure_position_mode, read_positions_ticks.             *)
Asked == [ping_all |-> 0, configure |-> 1, read_positions |-> 2]

(* What may be wrong with a reply: the servo reports an error, or a byte   *)
(* is not what was sent, in the header, in the length or elsewhere.        *)
Flaws == {"none", "servo", "header", "length", "checksum"}

VARIABLES
  wire,      \* bytes that have been sent and have not arrived
  input,     \* bytes that have arrived and have not been read
  loop,      \* the loop being executed, or "none"
  target,    \* the servo it has come to
  exchange,  \* "send", "prefix" or "rest"
  prefix,    \* the four bytes that were read, or none
  announced, \* how many follow, as these say
  sent,      \* history: requests
  loops,     \* history: loops begun
  faults,    \* history: failures, and replies flawed or lost
  behind,    \* history: since an error that may have left bytes on the line
  answer     \* history: the packet the last request was answered with

serial == <<wire, input>>
client == <<loop, target, exchange, prefix, announced>>
tally == <<sent, loops, faults>>
busVars == <<serial, client, tally, behind, answer>>

Packet(flaw) == [number |-> sent + 1, id |-> target, size |-> Asked[loop], flaw |-> flaw]

(* Header, id, length; error, parameters, checksum.                        *)
Length(p) == 6 + p.size

Bytes(p) == [k \in 1..Length(p) |-> [packet |-> p, at |-> k]]

Without(p, k) == SubSeq(Bytes(p), 1, k - 1) \o SubSeq(Bytes(p), k + 1, Length(p))

(* What comes of a request: a reply, a reply that lacks a byte, nothing.   *)
Replies ==
  {<<>>} \cup {Bytes(Packet(flaw)) : flaw \in Flaws}
    \cup {Without(Packet("none"), k) : k \in 1..Length(Packet("none"))}

Fault(happens) ==
  /\ happens => faults < MaxFaults
  /\ faults' = IF happens THEN faults + 1 ELSE faults

(* The length byte counts what follows it.                                 *)
Announced(p) == 2 + p.size

BusInit ==
  /\ wire = <<>> /\ input = <<>>
  /\ loop = "none" /\ target = 1 /\ exchange = "send"
  /\ prefix = <<>> /\ announced = 0
  /\ sent = 0 /\ loops = 0 /\ faults = 0
  /\ behind = FALSE /\ answer = NoPacket

BeginLoop(l) ==
  /\ loop = "none" /\ loops < MaxLoops
  /\ loop' = l /\ loops' = loops + 1
  /\ target' = 1 /\ answer' = NoPacket
  /\ UNCHANGED <<serial, exchange, prefix, announced, sent, faults, behind>>

(* The request is over: ping_all takes note of an error and goes on, the   *)
(* other loops return it.                                                  *)
Ended(ok) ==
  /\ exchange' = "send"
  /\ prefix' = <<>> /\ announced' = 0
  /\ IF target < BusServos /\ (ok \/ loop = "ping_all")
     THEN target' = target + 1 /\ UNCHANGED loop
     ELSE target' = 1 /\ loop' = "none"

(* write_all and flush: the servo answers, or nothing does.                *)
Send ==
  /\ loop # "none" /\ exchange = "send"
  /\ \E reply \in Replies :
       wire' = wire \o reply /\ Fault(reply # Bytes(Packet("none")))
  /\ sent' = sent + 1
  /\ exchange' = "prefix"
  /\ answer' = NoPacket
  /\ UNCHANGED <<input, loop, target, prefix, announced, loops, behind>>

SendFailsSlip == \* the error of flush is ignored, and the request written once more
  /\ loop # "none" /\ exchange = "send"
  /\ wire' = wire \o Bytes(Packet("none")) \o Bytes(Packet("none"))
  /\ Fault(TRUE)
  /\ sent' = sent + 1
  /\ exchange' = "prefix"
  /\ answer' = NoPacket
  /\ UNCHANGED <<input, loop, target, prefix, announced, loops, behind>>

(* One of them fails.  The request may have gone out all the same, or a    *)
(* part of it; nobody reads what comes of it.  (The same for a register    *)
(* that configure_position_mode writes, of which nothing comes.)           *)
SendFails ==
  /\ loop # "none" /\ exchange = "send"
  /\ \E reply \in Replies : wire' = wire \o reply
  /\ Fault(TRUE)
  /\ sent' = sent + 1
  /\ answer' = NoPacket
  /\ behind' = TRUE
  /\ Ended(FALSE)
  /\ UNCHANGED <<input, loops>>

(* The next byte arrives, while a read waits or when nobody does.          *)
Arrive ==
  /\ wire # <<>>
  /\ input' = Append(input, Head(wire))
  /\ wire' = Tail(wire)
  /\ UNCHANGED <<client, tally, behind, answer>>

Taken(n) == SubSeq(input, 1, n)
Left(n) == SubSeq(input, n + 1, Len(input))

(* What the fourth of four bytes may say.  Only of the first four bytes of *)
(* a packet that are as they were sent is it known; others may look like a *)
(* header or not.                                                          *)
Begins(four) == four = SubSeq(Bytes(four[1].packet), 1, 4)

LengthsRead(four) ==
  LET p == four[1].packet
  IN CASE Begins(four) /\ p.flaw = "header"              -> {}
       [] Begins(four) /\ p.flaw \notin {"header", "length"} -> {Announced(p)}
       [] OTHER                                           -> 0..MaxLength + 1

HeaderWrong ==
  /\ ~Begins(Taken(4)) \/ input[1].packet.flaw = "header"
  /\ behind' = TRUE
  /\ Ended(FALSE)

LengthWrong ==
  /\ \E n \in LengthsRead(Taken(4)) : n \notin 2..MaxLength
  /\ behind' = TRUE
  /\ Ended(FALSE)

ReadPrefix ==
  /\ exchange = "prefix" /\ Len(input) >= 4
  /\ input' = Left(4)
  /\ \/ HeaderWrong
     \/ LengthWrong
     \/ /\ exchange' = "rest"
        /\ prefix' = Taken(4)
        /\ announced' \in LengthsRead(Taken(4)) \cap (2..MaxLength)
        /\ UNCHANGED <<loop, target, behind>>
  /\ UNCHANGED <<wire, tally, answer>>

WellFormed(packet) ==
  packet = Bytes(packet[1].packet) /\ packet[1].packet.flaw = "none"

(* A reply of another servo, or to a request for another length, is        *)
(* refused; a ping takes any length.                                       *)
Answers(p) == p.id = target /\ (loop # "ping_all" => p.size = Asked[loop])

(* A wrong length is noticed by the checksum, which does not fit.          *)
ReadRest ==
  /\ exchange = "rest" /\ Len(input) >= announced
  /\ input' = Left(announced)
  /\ LET p == prefix[1].packet
         ok == WellFormed(prefix \o Taken(announced)) /\ Answers(p)
     IN /\ Ended(ok)
        /\ answer' = IF ok THEN p ELSE answer
        /\ behind' = (behind \/ announced # Announced(p))
  /\ UNCHANGED <<wire, tally>>

(* read_exact gives up when it has waited for too long, or for another     *)
(* error before that, and loses the bytes it has taken.  One that times    *)
(* out with nothing on its way has emptied the line.                       *)
ReadFails ==
  /\ exchange \in {"prefix", "rest"}
  /\ \E n \in 0..Len(input) :
       /\ n < (IF exchange = "prefix" THEN 4 ELSE announced)
       /\ Fault(n < Len(input))
       /\ input' = Left(n)
       /\ behind' = (n < Len(input) \/ wire # <<>>)
  /\ Ended(FALSE)
  /\ UNCHANGED <<wire, sent, loops, answer>>

BusNext ==
  \/ \E l \in DOMAIN Asked : BeginLoop(l)
  \/ Send \/ SendFails \/ Arrive \/ ReadPrefix \/ ReadRest \/ ReadFails

BusSpec == BusInit /\ [][BusNext]_busVars

-----------------------------------------------------------------------------
(* Until a caller has seen an error that may leave bytes on the line (an   *)
(* I/O error, no header, a wrong length), an answer is the reply to the    *)
(* request and not to an earlier one, and so it is again once a read has    *)
(* timed out on a line with nothing on its way.  An error that a servo     *)
(* reports, and a byte that is wrong elsewhere, cost one request and leave *)
(* the line in step.                                                       *)
AnswersAreFresh ==
  answer # NoPacket /\ ~behind => answer.number = sent

==============================================================================
