-------------------------------- MODULE WsBridge --------------------------------
(***************************************************************************)
(* forward_websocket: one bridge between a client and the WebSocket server *)
(* of a plugin.  Two pumps, one per direction, read a message and send it  *)
(* on; tokio::select! ends both as soon as one of them ends.               *)
(*                                                                         *)
(* A message in hand when the other pump ends may or may not have reached  *)
(* the socket.  Pings, pongs and close frames are messages like others.    *)
(* That the WebSocket libraries also answer a ping or a close frame on the *)
(* socket it came from is left out: such an answer passes no pump, and     *)
(* said, wire and heard tell what one peer sends to the other.  The peers, *)
(* the sockets and the network are external.                               *)
(***************************************************************************)
EXTENDS Naturals, Sequences, SequencesExt

CONSTANTS
  Payloads,  \* text, binary, ping and pong messages
  Close,     \* a close frame
  MaxSaid,   \* bound: messages each peer sends
  Window     \* messages a socket takes before its peer has to read

Dirs == {"up", "down"}      \* client to server, server to client
Peers == {"client", "server"}
Messages == Payloads \cup {Close}

ASSUME BridgeConstants ==
  /\ Close \notin Payloads
  /\ MaxSaid \in Nat
  /\ Window \in Nat \ {0}

Source(d)   == IF d = "up" THEN "client" ELSE "server"
Dest(d)     == IF d = "up" THEN "server" ELSE "client"
Opposite(d) == IF d = "up" THEN "down" ELSE "up"

VARIABLES
  active,  \* the map has a runtime handle of the plugin, with a base url
  bridge,  \* "none", "connecting", "open", "over"
  pump,    \* what each pump awaits: "read" a message, "send" it
  inbox,   \* sent by the source, not yet read by its pump
  hand,    \* the message a pump is sending: empty or one
  wire,    \* sent on by the pump, not yet received
  present, \* peers whose connection is up, or may yet come up
  reading, \* peers that still read what they are sent
  said,    \* history: all that the source has sent
  heard    \* history: all that the destination has received

wvars == <<active, bridge, pump, inbox, hand, wire, present, reading, said, heard>>

TypeOK ==
  /\ active \in BOOLEAN
  /\ bridge \in {"none", "connecting", "open", "over"}
  /\ pump \in [Dirs -> {"read", "send"}]
  /\ inbox \in [Dirs -> Seq(Messages)]
  /\ hand \in [Dirs -> Seq(Messages)]
  /\ wire \in [Dirs -> Seq(Messages)]
  /\ present \subseteq Peers /\ reading \subseteq Peers
  /\ said \in [Dirs -> Seq(Messages)]
  /\ heard \in [Dirs -> Seq(Messages)]
  /\ \A d \in Dirs :
       Len(hand[d]) = IF bridge = "open" /\ pump[d] = "send" THEN 1 ELSE 0

Init ==
  /\ active = TRUE
  /\ bridge = "none"
  /\ pump = [d \in Dirs |-> "read"]
  /\ inbox = [d \in Dirs |-> <<>>]
  /\ hand = [d \in Dirs |-> <<>>]
  /\ wire = [d \in Dirs |-> <<>>]
  /\ present = Peers
  /\ reading = Peers
  /\ said = [d \in Dirs |-> <<>>]
  /\ heard = [d \in Dirs |-> <<>>]

--------------------------------------------------------------------------------
(* The peers and the runtime.                                               *)

Closed(d) == \E i \in DOMAIN said[d] : said[d][i] = Close

\* Peers do not know when the bridge is over.
Speaks(d) ==
  /\ Source(d) \in present
  /\ bridge \in {"open", "over"} \cup IF d = "up" THEN {"connecting"} ELSE {}
  /\ ~Closed(d)

Say(d, m) ==
  /\ Speaks(d)
  /\ Len(said[d]) < MaxSaid
  /\ said' = [said EXCEPT ![d] = Append(@, m)]
  /\ inbox' = [inbox EXCEPT ![d] = Append(@, m)]
  /\ UNCHANGED <<active, bridge, pump, hand, wire, present, reading, heard>>

Hear(d) ==
  /\ Dest(d) \in present \cap reading
  /\ wire[d] # <<>>
  /\ heard' = [heard EXCEPT ![d] = Append(@, Head(wire[d]))]
  /\ wire' = [wire EXCEPT ![d] = Tail(@)]
  /\ UNCHANGED <<active, bridge, pump, inbox, hand, present, reading, said>>

\* A connection goes down: of what was sent some may still be read.
Vanish(p) ==
  /\ p \in present
  /\ present' = present \ {p}
  /\ \E d \in Dirs : Source(d) = p /\
       \E left \in Prefixes(inbox[d]) : inbox' = [inbox EXCEPT ![d] = left]
  /\ UNCHANGED <<active, bridge, pump, hand, wire, reading, said, heard>>

\* The connection stays up, and nobody takes what arrives there.
StopReading(p) ==
  /\ p \in reading
  /\ reading' = reading \ {p}
  /\ UNCHANGED <<active, bridge, pump, inbox, hand, wire, present, said, heard>>

\* A dropped socket that has unread messages, or gets more, is reset: its peer
\* may lose the end of what was sent to it.
Reset(d) ==
  /\ bridge = "over"
  /\ inbox[Opposite(d)] # <<>>
  /\ \E left \in Prefixes(wire[d]) : wire' = [wire EXCEPT ![d] = left]
  /\ UNCHANGED <<active, bridge, pump, inbox, hand, present, reading, said, heard>>

\* stop_plugin_runtime removes the handle before the runtime goes down.
RuntimeStopped ==
  /\ active
  /\ active' = FALSE
  /\ UNCHANGED <<bridge, pump, inbox, hand, wire, present, reading, said, heard>>

--------------------------------------------------------------------------------
(* proxy_plugin_ws_inner and forward_websocket.                             *)

\* The base url is read from the handle once.
Upgrade ==
  /\ bridge = "none"
  /\ active
  /\ bridge' = "connecting"
  /\ UNCHANGED <<active, pump, inbox, hand, wire, present, reading, said, heard>>

\* connect_async has no timeout; the handle is not looked at again.
Connect ==
  /\ bridge = "connecting"
  /\ "server" \in present
  /\ bridge' = "open"
  /\ UNCHANGED <<active, pump, inbox, hand, wire, present, reading, said, heard>>

\* select! drops both pumps and with them the sockets; extra[d] is what a pump
\* had in hand and the socket may have taken.
End(extra) ==
  /\ bridge' = "over"
  /\ wire' = [d \in Dirs |-> wire[d] \o extra[d]]
  /\ hand' = [d \in Dirs |-> <<>>]
  /\ UNCHANGED <<active, pump, inbox, present, reading, said, heard>>

Nothing == [d \in Dirs |-> <<>>]

\* What became of the other pump's message, when the pump of d ends.
Halfway(d) ==
  {Nothing, [e \in Dirs |-> IF e = d THEN <<>> ELSE hand[e]]}

\* The upgraded socket of the client is dropped; the server was never reached.
ConnectFails ==
  /\ bridge = "connecting"
  /\ bridge' = "over"
  /\ present' = present \ {"server"}
  /\ UNCHANGED <<active, pump, inbox, hand, wire, reading, said, heard>>

\* Mutation: the pump looks at the next message and leaves it in the stream.
BadRead(d) ==
  /\ bridge = "open"
  /\ pump[d] = "read"
  /\ inbox[d] # <<>>
  /\ hand' = [hand EXCEPT ![d] = <<Head(inbox[d])>>]
  /\ pump' = [pump EXCEPT ![d] = "send"]
  /\ UNCHANGED <<active, bridge, inbox, wire, present, reading, said, heard>>

\* stream.next() hands out a message.
Read(d) ==
  /\ bridge = "open"
  /\ pump[d] = "read"
  /\ inbox[d] # <<>>
  /\ hand' = [hand EXCEPT ![d] = <<Head(inbox[d])>>]
  /\ inbox' = [inbox EXCEPT ![d] = Tail(@)]
  /\ pump' = [pump EXCEPT ![d] = "send"]
  /\ UNCHANGED <<active, bridge, wire, present, reading, said, heard>>

\* Mutation: the bridge waits until both streams have ended.
BadReadEnds(d) ==
  /\ bridge = "open"
  /\ pump[d] = "read"
  /\ inbox[d] = <<>>
  /\ present = {}
  /\ \E extra \in Halfway(d) : End(extra)

\* stream.next() yields an error or the end.
ReadEnds(d) ==
  /\ bridge = "open"
  /\ pump[d] = "read"
  /\ inbox[d] = <<>>
  /\ Source(d) \notin present
  /\ \E extra \in Halfway(d) : End(extra)

CanSend(d) ==
  /\ bridge = "open"
  /\ pump[d] = "send"
  /\ Dest(d) \in present
  /\ Len(wire[d]) < Window

\* Mutation: what was sent on stays in hand.
BadSend(d) ==
  /\ CanSend(d)
  /\ hand[d] # <<Close>>
  /\ wire' = [wire EXCEPT ![d] = @ \o hand[d]]
  /\ pump' = [pump EXCEPT ![d] = "read"]
  /\ UNCHANGED <<active, bridge, inbox, hand, present, reading, said, heard>>

\* Mutation: a message is dropped when the other peer is gone.
BadSendDrops(d) ==
  /\ CanSend(d)
  /\ hand[d] # <<Close>>
  /\ wire' = IF Source(d) \in present THEN [wire EXCEPT ![d] = @ \o hand[d]] ELSE wire
  /\ hand' = [hand EXCEPT ![d] = <<>>]
  /\ pump' = [pump EXCEPT ![d] = "read"]
  /\ UNCHANGED <<active, bridge, inbox, present, reading, said, heard>>

Send(d) ==
  /\ CanSend(d)
  /\ hand[d] # <<Close>>
  /\ wire' = [wire EXCEPT ![d] = @ \o hand[d]]
  /\ hand' = [hand EXCEPT ![d] = <<>>]
  /\ pump' = [pump EXCEPT ![d] = "read"]
  /\ UNCHANGED <<active, bridge, inbox, present, reading, said, heard>>

\* Mutation: a close frame ends the bridge and is not sent on.
BadSendClose(d) ==
  /\ CanSend(d)
  /\ hand[d] = <<Close>>
  /\ \E other \in Halfway(d) : End(other)

\* A close frame is sent on and the pump ends.
SendClose(d) ==
  /\ CanSend(d)
  /\ hand[d] = <<Close>>
  /\ \E other \in Halfway(d) : End([other EXCEPT ![d] = hand[d]])

\* The destination is gone, or has closed and its socket takes nothing more.
SendFails(d) ==
  /\ bridge = "open"
  /\ pump[d] = "send"
  /\ Dest(d) \notin present \/ hand[Opposite(d)] = <<Close>>
  /\ \E extra \in Halfway(d) : End(extra)

Pump(d) == Read(d) \/ ReadEnds(d) \/ Send(d) \/ SendClose(d) \/ SendFails(d)

Next ==
  \/ Upgrade \/ Connect \/ ConnectFails \/ RuntimeStopped
  \/ \E d \in Dirs :
       Pump(d) \/ Hear(d) \/ Reset(d) \/ \E m \in Messages : Say(d, m)
  \/ \E p \in Peers : Vanish(p) \/ StopReading(p)

Spec == Init /\ [][Next]_wvars

\* The task of the bridge is polled whenever a socket is ready.  Who reads reads
\* on, but nobody has to: a peer may stop at any time.
FairSpec == Spec /\ \A d \in Dirs : WF_wvars(Pump(d)) /\ WF_wvars(Hear(d))

--------------------------------------------------------------------------------
(* In each direction the peer hears the beginning of what was said: no       *)
(* message is lost in the middle, repeated, reordered or made up, wherever   *)
(* the bridge ends and however much of its sockets is lost.                  *)
InOrder == \A d \in Dirs : IsPrefix(heard[d] \o wire[d], said[d])

(* A peer that closes is heard out: when its close frame ends the bridge,    *)
(* everything it said is on its way.  The pump of the other direction is     *)
(* dropped at that instant and takes nothing along; what is on its way can   *)
(* only be lost with a socket that has unread messages.                      *)
ClosedIsHeard ==
  [][\A d \in Dirs : SendClose(d) => heard'[d] \o wire'[d] = said[d]]_wvars

(* The bridge is no more than two FIFO pipes that are cut together.          *)
Pipes == INSTANCE CutPipes WITH
  cut <- bridge = "over",
  limit <- [d \in Dirs |-> IF bridge = "over" THEN Len(heard[d]) + Len(wire[d]) ELSE 0]

PipesSpec == Pipes!Spec

\* A send has no timeout: it waits for a peer that is there and reads no more.
Stuck(d) ==
  /\ pump[d] = "send" /\ Len(wire[d]) = Window
  /\ Dest(d) \in present \ reading

(* An open bridge ends once a peer is gone or has closed, whatever the pump  *)
(* towards that peer waits for; unless the pump that would notice is stuck   *)
(* for good on the other peer, which keeps its connection and reads no more. *)
BridgeEnds ==
  \A d \in Dirs :
    bridge = "open" /\ (Source(d) \notin present \/ Closed(d))
      ~> bridge = "over" \/ []Stuck(d)
================================================================================
