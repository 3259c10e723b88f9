----------------------------- MODULE MqttStream -----------------------------
(***************************************************************************)
(* What the relay writes to an observer (the bridge, the dashboard) as a   *)
(* stream of bytes: the packets of mqtt_wire.py, the threads that write    *)
(* them to one socket (the observer's own session, and through TapBus the  *)
(* threads of the devices), and the client's framer that puts them         *)
(* together again, beginning with the handshake.                           *)
(*                                                                         *)
(* A byte is a number whose upper half stands for the continuation bit     *)
(* (Base is 128 in the code); a packet is its first byte and its body.     *)
(* TCP moves bytes in pieces of any size, and holds at most Window of them.*)
(***************************************************************************)
EXTENDS Naturals, Sequences, FiniteSets, FiniteSetsExt

CONSTANTS
    Base,       \* values of a digit of a length; a byte is a digit with a bit
    Connack, Puback, Publish,   \* first bytes
    Bodies,     \* what a packet may hold
    Engine,     \* the thread of the observer's session
    Guests,     \* other threads that publish through TapBus
    None,
    Window,     \* bytes on their way at one time
    MaxPackets  \* packets written on one connection after the CONNACK

ASSUME BaseAssumption == Base \in Nat \ {0, 1}
Byte == 0..(2 * Base - 1)
ASSUME HeadsAssumption ==
    {Connack, Puback, Publish} \subseteq Byte /\ Cardinality({Connack, Puback, Publish}) = 3
ASSUME BodiesAssumption == Bodies \subseteq Seq(Byte)
ASSUME EngineAssumption == Engine \notin Guests
ASSUME BoundAssumption == Window \in Nat \ {0} /\ MaxPackets \in Nat

Writers == Guests \cup {Engine}
Packet  == [head : Byte, body : Seq(Byte)]
Packets == [head : {Connack, Puback, Publish}, body : Bodies]
ASSUME NoneAssumption == None \notin Packet /\ None \notin Writers

MaxDigits == 4

VARIABLES
    link,       \* "down", "connecting", "up": how far the client is
    subscribed, \* TapBus knows the connection
    writer,     \* writer[t]: what thread t is about
    lock,       \* who holds the connection's write_lock, or None
    wire,       \* bytes sent and not received
    buf,        \* the framer's unread bytes
    batch,      \* the packets of its last push
    reading,    \* the client's process is running
    torn,       \* a packet was left half written, and the connection lives on
    count       \* packets written after the CONNACK

vars == <<link, subscribed, writer, lock, wire, buf, batch, reading, torn, count>>

(* encode_varint: digits from the lowest, all but the last one marked. *)
Varint[n \in Nat] ==
    IF n < Base THEN <<n>> ELSE <<Base + (n % Base)>> \o Varint[n \div Base]

(* No body is longer than MQTT allows. *)
ASSUME LengthAssumption == \A body \in Bodies : Len(Varint[Len(body)]) <= MaxDigits

Encoded(p) == <<p.head>> \o Varint[Len(p.body)] \o p.body

(* _parse_varint: where the length ends that begins at b[2], 0 if it does  *)
(* not end within its four bytes, and what it says.                        *)
LengthEnd(b) ==
    LET ends == {i \in 2..(1 + MaxDigits) : i <= Len(b) /\ b[i] < Base}
    IN  IF ends = {} THEN 0 ELSE Min(ends)

Value[s \in Seq(Byte)] ==
    IF s = << >> THEN 0 ELSE (s[1] % Base) + Base * Value[Tail(s)]

LengthOf(b) == Value[SubSeq(b, 2, LengthEnd(b))]

HasPacket(b) == LengthEnd(b) # 0 /\ LengthEnd(b) + LengthOf(b) <= Len(b)

(* All the packets that are complete, and what is left. *)
Framed[b \in Seq(Byte)] ==
    IF ~HasPacket(b) THEN [packets |-> << >>, rest |-> b]
    ELSE LET total == LengthEnd(b) + LengthOf(b)
             more  == Framed[SubSeq(b, total + 1, Len(b))]
             first == [head |-> b[1], body |-> SubSeq(b, LengthEnd(b) + 1, total)]
         IN  [more EXCEPT !.packets = <<first>> \o @]

(* A mutant: push returns at most one packet. *)
PushOnce(b) ==
    LET total == LengthEnd(b) + LengthOf(b)
        all   == Framed[b].packets
    IN  IF all = << >> THEN Framed[b]
        ELSE [packets |-> <<all[1]>>, rest |-> SubSeq(b, total + 1, Len(b))]

(* Framer.push, b being its unread bytes with those pushed. *)
Push(b) == Framed[b]

(***************************************************************************)
(* A thread: "idle", "waiting" for the lock, "writing" (sendall has left   *)
(* to send), "stale" (its socket was closed while it was at it).           *)
(***************************************************************************)
Writing == [pc : {"waiting", "writing"}, packet : Packets, left : Seq(Byte)]
NoPacket(pc) == [pc |-> pc, packet |-> None, left |-> << >>]

TypeOK ==
    /\ link \in {"down", "connecting", "up"}
    /\ subscribed \in BOOLEAN /\ reading \in BOOLEAN /\ torn \in BOOLEAN
    /\ writer \in [Writers -> Writing \cup {NoPacket("idle"), NoPacket("stale")}]
    /\ lock \in Writers \cup {None}
    /\ \A t \in Writers : lock = t <=> writer[t].pc = "writing"
    /\ wire \in Seq(Byte) /\ Len(wire) <= Window
    /\ buf \in Seq(Byte)
    /\ batch \in Seq(Packet)
    /\ count \in 0..MaxPackets

Init ==
    /\ link = "down"
    /\ subscribed = FALSE
    /\ writer = [t \in Writers |-> NoPacket("idle")]
    /\ lock = None
    /\ wire = << >> /\ buf = << >> /\ batch = << >>
    /\ reading = TRUE
    /\ torn = FALSE
    /\ count = 0

(* The connection. *)

Connect ==
    /\ link = "down"
    /\ link' = "connecting"
    /\ UNCHANGED <<subscribed, writer, lock, wire, buf, batch, reading, torn, count>>

(* Its end, on either side: a new one has a new socket, a new lock and a   *)
(* new framer, and a thread that still writes to the old one will fail.    *)
Lost ==
    /\ link' = "down"
    /\ subscribed' = FALSE
    /\ writer' = [t \in Writers |->
           NoPacket(IF t = Engine \/ writer[t].pc = "idle" THEN "idle" ELSE "stale")]
    /\ lock' = None
    /\ wire' = << >> /\ buf' = << >> /\ batch' = << >>
    /\ torn' = FALSE
    /\ count' = 0

Break ==
    /\ link # "down"
    /\ Lost
    /\ UNCHANGED reading

(* The relay's threads. *)

Want(t, p) == writer' = [writer EXCEPT ![t] = [pc |-> "waiting", packet |-> p, left |-> Encoded(p)]]

(* The session handles CONNECT: the tap is on before the CONNACK is sent. *)
Greet ==
    /\ link # "down" /\ ~subscribed
    /\ subscribed' = TRUE
    /\ \E body \in Bodies : Want(Engine, [head |-> Connack, body |-> body])
    /\ UNCHANGED <<link, lock, wire, buf, batch, reading, torn, count>>

(* A thread has a packet for the observer: TapBus.publish, which has found *)
(* the subscription, or an answer of the session.                          *)
Offer(t) ==
    /\ subscribed
    /\ writer[t].pc = "idle"
    /\ count < MaxPackets
    /\ count' = count + 1
    /\ \E head \in {Publish} \cup (IF t = Engine THEN {Puback} ELSE {}), body \in Bodies :
         Want(t, [head |-> head, body |-> body])
    /\ UNCHANGED <<link, subscribed, lock, wire, buf, batch, reading, torn>>

(* A mutant: publishing takes no lock. *)
AcquireWithoutLock(t) ==
    /\ writer[t].pc = "waiting"
    /\ lock' = t
    /\ writer' = [writer EXCEPT ![t].pc = "writing"]
    /\ UNCHANGED <<link, subscribed, wire, buf, batch, reading, torn, count>>

Acquire(t) ==
    /\ writer[t].pc = "waiting"
    /\ lock = None
    /\ lock' = t
    /\ writer' = [writer EXCEPT ![t].pc = "writing"]
    /\ UNCHANGED <<link, subscribed, wire, buf, batch, reading, torn, count>>

(* sendall hands n more bytes to TCP; with the last one the lock is free. *)
Write(t) ==
    /\ writer[t].pc = "writing"
    /\ \E n \in 1..Len(writer[t].left) :
         LET left == SubSeq(writer[t].left, n + 1, Len(writer[t].left))
         IN  /\ Len(wire) + n <= Window
             /\ wire' = wire \o SubSeq(writer[t].left, 1, n)
             /\ IF left = << >>
                  THEN writer' = [writer EXCEPT ![t] = NoPacket("idle")] /\ lock' = None
                  ELSE writer' = [writer EXCEPT ![t].left = left] /\ UNCHANGED lock
    /\ UNCHANGED <<link, subscribed, buf, batch, reading, torn, count>>

(* A mutant: a write that timed out does not release the lock. *)
TimeOutKeepsLock(t) ==
    /\ writer[t].pc = "writing"
    /\ Len(wire) = Window
    /\ writer' = [writer EXCEPT ![t] = NoPacket("idle")]
    /\ torn' = (torn \/ writer[t].left # Encoded(writer[t].packet))
    /\ UNCHANGED <<link, subscribed, lock, wire, buf, batch, reading, count>>

(* The client does not read and sendall times out.  TapBus.publish goes on *)
(* as if nothing had happened; an exception in the session ends it.        *)
TimeOut(t) ==
    /\ writer[t].pc = "writing"
    /\ Len(wire) = Window
    /\ IF writer[t].packet.head = Publish
         THEN /\ writer' = [writer EXCEPT ![t] = NoPacket("idle")]
              /\ lock' = None
              /\ torn' = (torn \/ writer[t].left # Encoded(writer[t].packet))
              /\ UNCHANGED <<link, subscribed, wire, buf, batch, count>>
         ELSE Lost
    /\ UNCHANGED reading

(* The thread fails on the closed socket, and goes on. *)
Fail(t) ==
    /\ writer[t].pc = "stale"
    /\ writer' = [writer EXCEPT ![t] = NoPacket("idle")]
    /\ UNCHANGED <<link, subscribed, lock, wire, buf, batch, reading, torn, count>>

(* The client. *)

(* It receives some bytes and takes the packets they complete.  Until the  *)
(* CONNACK it drops packets, and those that come in the same piece too.    *)
Recv ==
    /\ link # "down" /\ reading
    /\ \E n \in 1..Len(wire) :
         LET pushed == Push(buf \o SubSeq(wire, 1, n))
         IN  /\ wire' = SubSeq(wire, n + 1, Len(wire))
             /\ buf' = pushed.rest
             /\ batch' = pushed.packets
             /\ link' = IF \E i \in DOMAIN pushed.packets : pushed.packets[i].head = Connack
                          THEN "up" ELSE link
    /\ UNCHANGED <<subscribed, writer, lock, reading, torn, count>>

(* The client's process is held up, or goes on. *)
Stall ==
    /\ reading' = ~reading
    /\ UNCHANGED <<link, subscribed, writer, lock, wire, buf, batch, torn, count>>

SessionStep == Greet \/ Break
WriterStep(t) == Offer(t) \/ Acquire(t) \/ Write(t) \/ TimeOut(t) \/ Fail(t)
ClientStep == Connect \/ Recv \/ Stall

Next == SessionStep \/ ClientStep \/ \E t \in Writers : WriterStep(t)

(* Threads go on, and a lock that is free again and again is had in the    *)
(* end.  Nobody makes a client that is held up go on.                      *)
Fairness ==
    /\ WF_vars(Greet)
    /\ WF_vars(Recv)
    /\ \A t \in Writers : /\ SF_vars(Acquire(t))
                          /\ WF_vars(Write(t) \/ TimeOut(t))
                          /\ WF_vars(Fail(t))

Spec == Init /\ [][Next]_vars /\ Fairness

(* Properties. *)

(* The packets on their way, and those the framer would find in them. *)
OnTheWay == Framed[buf \o wire].packets

Channel == INSTANCE PacketChannel WITH
    offered <- [t \in Writers |-> writer[t].packet],
    queue   <- OnTheWay

(* However TCP cuts the stream and whichever threads write to it, packets  *)
(* arrive whole, in order and once; half a packet spoils only what follows.*)
IsChannel == Channel!Spec

(* A connection that lasts, of a client that reads, gets through its       *)
(* handshake, whatever is tapped before the CONNACK, and no packet stays   *)
(* behind in the framer.                                                   *)
Arrives ==
    <>[](link # "down" /\ reading /\ ~torn) => <>[](link = "up" /\ wire = << >> /\ buf = << >>)

(* A thread of a device is held up by an observer that does not read, but  *)
(* not for ever.                                                           *)
PublishEnds == \A t \in Guests : writer[t].pc # "idle" ~> writer[t].pc = "idle"
=============================================================================
