------------------------------- MODULE DesktopRelay -------------------------------
(***************************************************************************)
(* The relay of the desktop's WebSocket (workspaces/proxy/desktop_proxy.rs:*)
(* relay_websocket): two pumps, joined, between the browser and the        *)
(* container.                                                              *)
(*                                                                         *)
(* Abstractions.  A frame is its number.  A connection is a queue in each  *)
(* direction, of at most Buffer frames towards a peer.                     *)
(***************************************************************************)
EXTENDS Naturals, Sequences

CONSTANTS
    MaxFrames,      \* bounds what a peer sends
    Buffer          \* what a connection holds before a send has to wait

ASSUME RelayAssumption == MaxFrames \in Nat /\ Buffer \in Nat \ {0}

VARIABLES
    peer,           \* each peer: "open", "closing" (it has sent its Close) or "gone"
    sent,           \* frames each peer has sent
    got,            \* frames each peer has read, and whether a Close found it open
    inbox,          \* what a peer sent and the relay has not read
    outbox,         \* what the relay sent to a peer and it has not read
    pump            \* the pump that reads from each peer: its step, and the frame it holds

drVars == <<peer, sent, got, inbox, outbox, pump>>

Peers == {"browser", "upstream"}
Other(p) == CHOOSE q \in Peers : q # p
Close == 0                              \* a Close frame; data frames count from 1
Frames == 1..MaxFrames

(* connect_async may fail, and the relay ends at once.                     *)
Dialled(reached) ==
    [p \in Peers |-> [pc |-> IF reached THEN "read" ELSE "done", frame |-> Close]]

InitRelay ==
    /\ peer = [p \in Peers |-> "open"]
    /\ sent = [p \in Peers |-> 0]
    /\ got = [p \in Peers |-> [frames |-> <<>>, closed |-> FALSE]]
    /\ inbox = [p \in Peers |-> <<>>] /\ outbox = [p \in Peers |-> <<>>]
    /\ \E reached \in BOOLEAN : pump = Dialled(reached)

------------------------------------------------------------------------------
(* The pump that reads from p and writes to the other one                  *)

Pumps(p, pc) == pump[p].pc = pc
Gone(p) == peer[p] = "gone"

(* The stream ends when its peer is gone or a Close arrives.               *)
ReadFrame(p) ==
    /\ Pumps(p, "read")
    /\ \/ /\ inbox[p] # <<>>
          /\ inbox' = [inbox EXCEPT ![p] = Tail(@)]
          /\ pump' = [pump EXCEPT ![p] = IF Head(inbox[p]) = Close
                                         THEN [pc |-> "close", frame |-> Close]
                                         ELSE [pc |-> "send", frame |-> Head(inbox[p])]]
       \/ /\ Gone(p)
          /\ pump' = [pump EXCEPT ![p] = [pc |-> "close", frame |-> Close]]
          /\ UNCHANGED inbox
    /\ UNCHANGED <<peer, sent, got, outbox>>

(* The frame at hand is lost when there is no room for it.                 *)
SendOrDrop(p) ==
    LET q == Other(p) IN
    /\ Pumps(p, "send")
    /\ \/ /\ ~Gone(q)
          /\ outbox' = IF Len(outbox[q]) < Buffer
                       THEN [outbox EXCEPT ![q] = Append(@, pump[p].frame)] ELSE outbox
          /\ pump' = [pump EXCEPT ![p] = [pc |-> "read", frame |-> Close]]
       \/ /\ peer[q] # "open" /\ UNCHANGED outbox
          /\ pump' = [pump EXCEPT ![p] = [pc |-> "close", frame |-> Close]]
    /\ UNCHANGED <<peer, sent, got, inbox>>

(* The send waits for room; it fails when the other one has closed or gone.*)
SendFrame(p) ==
    LET q == Other(p) IN
    /\ Pumps(p, "send")
    /\ \/ /\ ~Gone(q) /\ Len(outbox[q]) < Buffer
          /\ outbox' = [outbox EXCEPT ![q] = Append(@, pump[p].frame)]
          /\ pump' = [pump EXCEPT ![p] = [pc |-> "read", frame |-> Close]]
       \/ /\ peer[q] # "open" /\ UNCHANGED outbox
          /\ pump' = [pump EXCEPT ![p] = [pc |-> "close", frame |-> Close]]
    /\ UNCHANGED <<peer, sent, got, inbox>>

(* The pump just ends. *)
EndQuietly(p) ==
    /\ Pumps(p, "close")
    /\ pump' = [pump EXCEPT ![p].pc = "done"]
    /\ UNCHANGED <<peer, sent, got, inbox, outbox>>

(* Whatever ended the loop, the other side is told, once there is room.    *)
CloseOther(p) ==
    LET q == Other(p) IN
    /\ Pumps(p, "close")
    /\ Gone(q) \/ Len(outbox[q]) < Buffer
    /\ pump' = [pump EXCEPT ![p].pc = "done"]
    /\ outbox' = IF Gone(q) THEN outbox ELSE [outbox EXCEPT ![q] = Append(@, Close)]
    /\ UNCHANGED <<peer, sent, got, inbox>>

Ended == \A p \in Peers : Pumps(p, "done")

Pump(p) == ReadFrame(p) \/ SendFrame(p) \/ CloseOther(p)

------------------------------------------------------------------------------
(* The peers.  WebSocket implementations answer a Close with a Close and   *)
(* read what arrives.                                                      *)

SendData(p) ==
    /\ peer[p] = "open" /\ sent[p] < MaxFrames
    /\ sent' = [sent EXCEPT ![p] = @ + 1]
    /\ inbox' = [inbox EXCEPT ![p] = Append(@, sent[p] + 1)]
    /\ UNCHANGED <<peer, got, outbox, pump>>

SendClose(p) ==
    /\ peer[p] = "open"
    /\ peer' = [peer EXCEPT ![p] = "closing"]
    /\ inbox' = [inbox EXCEPT ![p] = Append(@, Close)]
    /\ UNCHANGED <<sent, got, outbox, pump>>

TakeFrame(p) ==
    /\ ~Gone(p) /\ outbox[p] # <<>>
    /\ outbox' = [outbox EXCEPT ![p] = Tail(@)]
    /\ IF Head(outbox[p]) # Close
       THEN /\ got' = [got EXCEPT ![p].frames = Append(@, Head(outbox[p]))]
            /\ UNCHANGED <<peer, inbox>>
       ELSE /\ got' = [got EXCEPT ![p].closed = (@ \/ peer[p] = "open")]
            /\ peer' = [peer EXCEPT ![p] = "closing"]
            /\ inbox' = IF peer[p] = "open" THEN [inbox EXCEPT ![p] = Append(@, Close)] ELSE inbox
    /\ UNCHANGED <<sent, pump>>

(* The tab is closed, the container is stopped: the connection is lost.    *)
Vanish(p) ==
    /\ ~Gone(p)
    /\ peer' = [peer EXCEPT ![p] = "gone"]
    /\ outbox' = [outbox EXCEPT ![p] = <<>>]
    /\ UNCHANGED <<sent, got, inbox, pump>>

(* The desktop is opened again: another relay, on connections of its own.  *)
Reconnect ==
    /\ Ended
    /\ peer' = [p \in Peers |-> "open"]
    /\ sent' = [p \in Peers |-> 0]
    /\ got' = [p \in Peers |-> [frames |-> <<>>, closed |-> FALSE]]
    /\ inbox' = [p \in Peers |-> <<>>] /\ outbox' = [p \in Peers |-> <<>>]
    /\ \E reached \in BOOLEAN : pump' = Dialled(reached)

RelayNext ==
    \/ \E p \in Peers : Pump(p) \/ SendData(p) \/ SendClose(p) \/ TakeFrame(p) \/ Vanish(p)
    \/ Reconnect

RelaySpec == InitRelay /\ [][RelayNext]_drVars

------------------------------------------------------------------------------
(* Properties *)

RelayTypeOK ==
    /\ peer \in [Peers -> {"open", "closing", "gone"}]
    /\ sent \in [Peers -> 0..MaxFrames]
    /\ \A p \in Peers :
        /\ pump[p].pc \in {"read", "send", "close", "done"} /\ pump[p].frame \in Frames \union {Close}
        /\ inbox[p] \in Seq(Frames \union {Close}) /\ outbox[p] \in Seq(Frames \union {Close})

(* A peer reads what the other one sent, in its order and without a gap,   *)
(* and if it is closed by the relay without having closed or lost anything *)
(* itself, it has read all of it (desktop_proxy.rs:206-241).               *)
RelayIsTransparent ==
    \A p \in Peers : LET q == Other(p) IN
        /\ got[p].frames = [i \in 1..Len(got[p].frames) |-> i]
        /\ got[p].closed /\ ~Gone(q) => Len(got[p].frames) = sent[q]

(* Once either side has closed or gone, both pumps end, and the relay with *)
(* them, though each still holds its half (178-186, 241).                  *)
RelayEnds ==
    (\E p \in Peers : peer[p] # "open") ~> Ended
==============================================================================
