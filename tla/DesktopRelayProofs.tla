---------------------------- MODULE DesktopRelayProofs ----------------------------
(***************************************************************************)
(* The relay is transparent for any number of frames and any room in the   *)
(* connections, whatever ends either of them and in whichever order.       *)
(***************************************************************************)
EXTENDS DesktopRelay, SequenceTheorems, TLAPS

(* A queue carries the frames that follow the first b, in their order; a   *)
(* Close, if there is one, is the last thing in it.                        *)
Queue == Seq(Frames \union {Close})
Carries(s, b) == \A i \in 1..Len(s) : s[i] = b + i \/ (s[i] = Close /\ i = Len(s))
Closes(s) == s # <<>> /\ s[Len(s)] = Close

(* How many frames p has read, and how many are behind it or in its outbox *)
Taken(p) == Len(got[p].frames)
Passed(p) == Taken(p) + Len(outbox[p])
Held(p) == IF Pumps(Other(p), "send") THEN 1 ELSE 0

(* What p has read, and what waits for it to be read                       *)
ReadInOrder(p) ==
    /\ got[p].frames \in Seq(Nat) /\ \A i \in 1..Taken(p) : got[p].frames[i] = i
    /\ Gone(p) => outbox[p] = <<>>
    /\ Carries(outbox[p], Taken(p)) /\ (Closes(outbox[p]) => Pumps(Other(p), "done"))

(* What the pump towards p holds, and what it has yet to read              *)
RestInOrder(p) == LET q == Other(p) IN
    ~Gone(p) /\ (Pumps(q, "read") \/ Pumps(q, "send")) =>
        /\ Pumps(q, "send") => pump[q].frame = Passed(p) + 1
        /\ Carries(inbox[q], Passed(p) + Held(p)) /\ (Closes(inbox[q]) => peer[q] # "open")
        /\ sent[q] = Passed(p) + Held(p) + Len(inbox[q]) - (IF Closes(inbox[q]) THEN 1 ELSE 0)

(* A pump that closes p, a Close on its way to p and one that p has read,  *)
(* while p was open and the other one is there, come after all frames.     *)
CloseIsLast(p) == LET q == Other(p) IN
    /\ ~Gone(q) /\ peer[p] = "open" =>
        /\ Pumps(q, "close") => Passed(p) = sent[q] /\ peer[q] # "open"
        /\ Closes(outbox[p]) => Passed(p) = sent[q] + 1 /\ peer[q] # "open"
    /\ got[p].closed =>
        /\ outbox[p] = <<>> /\ Pumps(q, "done")
        /\ ~Gone(q) => Taken(p) = sent[q] /\ peer[q] # "open"

PumpState == [pc : {"read", "send", "close", "done"}, frame : Frames \union {Close}]
Shapes ==
    /\ got \in [Peers -> [frames : Seq(Nat), closed : BOOLEAN]]
    /\ pump \in [Peers -> PumpState]
    /\ inbox \in [Peers -> Queue] /\ outbox \in [Peers -> Queue]

Direction(p) == ReadInOrder(p) /\ RestInOrder(p) /\ CloseIsLast(p)
PeersOK ==
    /\ peer \in [Peers -> {"open", "closing", "gone"}]
    /\ sent \in [Peers -> 0..MaxFrames]

RelayInv == PeersOK /\ Shapes /\ \A p \in Peers : Direction(p)

LEMMA RelayInvTypes == RelayInv => RelayTypeOK
  BY DEF RelayInv, PeersOK, Shapes, PumpState, Queue, RelayTypeOK

------------------------------------------------------------------------------
(* Peers and queues *)

LEMMA CloseState == \A pc \in {"read", "close", "done"} : [pc |-> pc, frame |-> Close] \in PumpState
  BY DEF PumpState

LEMMA TwoPeers ==
    \A p \in Peers : /\ Other(p) \in Peers /\ Other(p) # p /\ Other(Other(p)) = p
                     /\ \A r \in Peers : r # p => r = Other(p)
<1>1. Other("browser") = "upstream" /\ Other("upstream") = "browser"
  BY DEF Other, Peers
<1> QED
  BY <1>1 DEF Peers

LEMMA CloseIsNoFrame == Close \notin Frames /\ Close \in Nat /\ Frames \subseteq Nat
  BY RelayAssumption DEF Close, Frames

LEMMA AppendFrame ==
    ASSUME NEW s \in Queue, NEW b \in Nat, Carries(s, b), ~Closes(s),
           NEW f \in Frames, f = b + Len(s) + 1
    PROVE  /\ Append(s, f) \in Queue /\ Carries(Append(s, f), b)
           /\ ~Closes(Append(s, f)) /\ Len(Append(s, f)) = Len(s) + 1
  BY CloseIsNoFrame DEF Queue, Carries, Closes

LEMMA AppendClose ==
    ASSUME NEW s \in Queue, NEW b \in Nat, Carries(s, b), ~Closes(s)
    PROVE  /\ Append(s, Close) \in Queue /\ Carries(Append(s, Close), b)
           /\ Closes(Append(s, Close)) /\ Len(Append(s, Close)) = Len(s) + 1
<1>1. Close \in Frames \union {Close} /\ s \in Seq(Frames \union {Close})
  BY DEF Queue
<1> DEFINE t == Append(s, Close)
<1>2. t \in Queue /\ Len(t) = Len(s) + 1 /\ Len(s) \in Nat /\ t[Len(s) + 1] = Close
      /\ \A i \in 1..Len(s) : t[i] = s[i]
  BY <1>1, AppendProperties DEF Queue
<1>3. \A i \in 1..Len(s) : s[i] = b + i
  BY <1>2 DEF Carries, Closes
<1> HIDE DEF t
<1>4. Carries(t, b)
  BY <1>2, <1>3 DEF Carries
<1>5. t # <<>>
  BY <1>2
<1> QED
  BY <1>2, <1>4, <1>5 DEF Closes, t

(* What comes out of a queue is the next frame, or the Close that ends it. *)
LEMMA TakeHead ==
    ASSUME NEW s \in Queue, NEW b \in Nat, Carries(s, b), s # <<>>
    PROVE  /\ Head(s) \in Frames \union {Close} /\ Tail(s) \in Queue
           /\ Len(Tail(s)) = Len(s) - 1
           /\ Head(s) # Close => /\ Head(s) = b + 1 /\ Carries(Tail(s), b + 1)
                                 /\ Closes(Tail(s)) <=> Closes(s)
           /\ Head(s) = Close => Closes(s) /\ Len(s) = 1 /\ Tail(s) = <<>>
<1> DEFINE t == Tail(s)
<1>1. Len(s) \in Nat \ {0} /\ Head(s) = s[1] /\ s[1] \in Frames \union {Close}
  BY DEF Queue
<1>2. /\ t \in Queue /\ Len(t) = Len(s) - 1
      /\ \A i \in 1..Len(t) : t[i] = s[i + 1]
  BY <1>1, HeadTailProperties DEF Queue
<1>3. (t = <<>>) <=> (Len(t) = 0)
  BY <1>2, EmptySeq DEF Queue
<1> HIDE DEF t
<1>4. CASE s[1] # Close
  <2>1. s[1] = b + 1
    BY <1>1, <1>4 DEF Carries
  <2>2. ASSUME NEW i \in 1..Len(t) PROVE t[i] = b + 1 + i \/ (t[i] = Close /\ i = Len(t))
    <3>1. i + 1 \in 1..Len(s) /\ (i + 1 = Len(s) <=> i = Len(t))
      BY <1>1, <1>2
    <3>2. s[i + 1] = b + (i + 1) \/ (s[i + 1] = Close /\ i + 1 = Len(s))
      BY <3>1 DEF Carries
    <3> QED
      BY <1>2, <3>1, <3>2
  <2>3. Closes(t) <=> Closes(s)
    <3>1. CASE Len(s) = 1
      BY <1>1, <1>2, <1>3, <1>4, <3>1 DEF Closes
    <3>2. CASE Len(s) # 1
      <4>1. Len(t) \in 1..Len(t) /\ t[Len(t)] = s[Len(s)] /\ t # <<>>
        BY <1>1, <1>2, <1>3, <3>2
      <4> QED
        BY <4>1 DEF Closes
    <3> QED
      BY <3>1, <3>2
  <2> QED
    BY <1>1, <1>2, <1>4, <2>1, <2>2, <2>3 DEF Carries, t
<1>5. CASE s[1] = Close
  <2>1. s[1] # b + 1
    BY <1>5 DEF Close
  <2>2. 1 \in 1..Len(s)
    BY <1>1
  <2>3. Len(s) = 1
    BY <2>1, <2>2 DEF Carries
  <2>4. Len(t) = 0
    <3>1. Len(t) = Len(s) - 1
      BY <1>2
    <3> QED
      BY <2>3, <3>1
  <2>5. Closes(s)
    BY <1>5, <2>3 DEF Closes
  <2> QED
    BY <1>1, <1>2, <1>5, <1>3, <2>3, <2>4, <2>5 DEF t
<1> QED
  BY <1>4, <1>5

LEMMA TakeAny ==
    ASSUME NEW s \in Queue, s # <<>>
    PROVE  Head(s) \in Frames \union {Close} /\ Tail(s) \in Queue /\ Len(Tail(s)) = Len(s) - 1
<1>1. s \in Seq(Frames \union {Close})
  BY DEF Queue
<1> QED
  BY <1>1, HeadTailProperties DEF Queue

------------------------------------------------------------------------------
(* The steps, seen from p, which reads what q = Other(p) sent              *)

Facts(p) == LET q == Other(p) IN
    /\ q \in Peers /\ q # p /\ Other(q) = p
    /\ got[p] \in [frames : Seq(Nat), closed : BOOLEAN]
    /\ Taken(p) \in Nat /\ Passed(p) \in Nat /\ Held(p) \in 0..1 /\ sent[q] \in Nat
    /\ inbox[q] \in Queue /\ outbox[p] \in Queue
    /\ Len(inbox[q]) \in Nat /\ Len(outbox[p]) \in Nat
    /\ pump[q] \in PumpState
    /\ peer[p] \in {"open", "closing", "gone"} /\ peer[q] \in {"open", "closing", "gone"}

LEMMA FactsOf == ASSUME RelayInv, NEW p \in Peers PROVE Facts(p)
<1> DEFINE q == Other(p)
<1>1. q \in Peers /\ q # p /\ Other(q) = p
  BY TwoPeers
<1>2. /\ got[p] \in [frames : Seq(Nat), closed : BOOLEAN]
      /\ inbox[q] \in Queue /\ outbox[p] \in Queue
      /\ pump[q] \in PumpState
      /\ peer[p] \in {"open", "closing", "gone"} /\ peer[q] \in {"open", "closing", "gone"}
      /\ sent[q] \in 0..MaxFrames
  BY <1>1 DEF RelayInv, Shapes, PeersOK
<1>3. Taken(p) \in Nat /\ Len(inbox[q]) \in Nat /\ Len(outbox[p]) \in Nat
  BY <1>2 DEF Taken, Queue
<1> QED
  BY <1>1, <1>2, <1>3, RelayAssumption DEF Facts, Passed, Held

(* A step that leaves what p reads alone leaves all alone, though p itself *)
(* may close.                                                              *)
LEMMA Untouched ==
    ASSUME NEW p \in Peers, Direction(p), sent'[Other(p)] = sent[Other(p)],
           peer'[p] = peer[p] \/ (~Gone(p) /\ peer'[p] = "closing"),
           peer'[Other(p)] = peer[Other(p)],
           got'[p] = got[p], outbox'[p] = outbox[p], inbox'[Other(p)] = inbox[Other(p)],
           pump'[Other(p)] = pump[Other(p)]
    PROVE  Direction(p)'
  BY DEF Direction, ReadInOrder, RestInOrder, CloseIsLast, Taken, Passed, Held, Pumps, Gone

(* While a pump is not done, no Close is on its way nor has been read.     *)
LEMMA NotDone ==
    ASSUME NEW p \in Peers, Facts(p), Direction(p), ~Pumps(Other(p), "done")
    PROVE  ~Closes(outbox[p]) /\ ~got[p].closed
  BY DEF Direction, ReadInOrder, CloseIsLast

(* The invariant of both directions, if p's is kept and q's is as it was   *)
LEMMA BothWays ==
    ASSUME PeersOK', Shapes', NEW p \in Peers, Direction(p)', Direction(Other(p))'
    PROVE  RelayInv'
  BY TwoPeers DEF RelayInv

LEMMA ReadShapes ==
    ASSUME Shapes, NEW p \in Peers, NEW w \in PumpState, NEW b \in Queue,
           pump' = [pump EXCEPT ![p] = w], inbox' = [inbox EXCEPT ![p] = b],
           UNCHANGED <<got, outbox>>
    PROVE  Shapes'
  BY DEF Shapes

(* A frame or a Close leaves the inbox of p, on its way to the other one.  *)
LEMMA ReadFrameStep == ASSUME RelayInv, NEW q \in Peers, ReadFrame(Other(q)) PROVE RelayInv'
<1> DEFINE p == Other(q)
<1>1. p \in Peers /\ q # p /\ Other(p) = q /\ Direction(q) /\ Direction(p) /\ Facts(q)
  BY TwoPeers, FactsOf DEF RelayInv
<1>2. /\ UNCHANGED <<peer, sent, got, outbox>> /\ Pumps(p, "read")
      /\ pump' = [pump EXCEPT ![p] = pump'[p]] /\ inbox' = [inbox EXCEPT ![p] = inbox'[p]]
      /\ \/ /\ inbox[p] # <<>> /\ inbox'[p] = Tail(inbox[p])
            /\ pump'[p] = IF Head(inbox[p]) = Close
                          THEN [pc |-> "close", frame |-> Close]
                          ELSE [pc |-> "send", frame |-> Head(inbox[p])]
         \/ Gone(p) /\ inbox'[p] = inbox[p] /\ pump'[p] = [pc |-> "close", frame |-> Close]
  BY <1>1 DEF ReadFrame, RelayInv, Shapes
<1> HIDE DEF p
<1>3. pump'[q] = pump[q] /\ inbox'[q] = inbox[q]
  BY <1>1, <1>2 DEF RelayInv, Shapes
<1>4. Direction(p)'
  BY <1>1, <1>2, <1>3, Untouched
<1>5. Held(q) = 0 /\ pump[p].pc = "read" /\ ~Closes(outbox[q]) /\ ~got[q].closed
  BY <1>1, <1>2, NotDone DEF Held, Pumps, p
<1>6. Passed(q)' = Passed(q) /\ Taken(q)' = Taken(q) /\ ReadInOrder(q)' /\ inbox[p] \in Queue
  BY <1>1, <1>2, <1>5 DEF Passed, Taken, Direction, ReadInOrder, Gone, Facts, p
<1>7. ~Gone(q) => /\ Carries(inbox[p], Passed(q)) /\ (Closes(inbox[p]) => peer[p] # "open")
                  /\ sent[p] = Passed(q) + Len(inbox[p]) - (IF Closes(inbox[p]) THEN 1 ELSE 0)
  <2>1. Passed(q) + Held(q) = Passed(q)
    BY <1>1, <1>5 DEF Facts
  <2> QED
    BY <1>1, <1>2, <2>1 DEF Direction, RestInOrder, p
<1>8. CASE /\ inbox[p] # <<>> /\ inbox'[p] = Tail(inbox[p]) /\ Head(inbox[p]) # Close
           /\ pump'[p] = [pc |-> "send", frame |-> Head(inbox[p])]
  <2>1. Pumps(p, "send")' /\ ~Pumps(p, "close")' /\ ~Pumps(p, "done")' /\ Held(q)' = 1
        /\ pump'[p].frame = Head(inbox[p])
    BY <1>8 DEF Pumps, Held, p
  <2>2. CloseIsLast(q)'
    BY <1>2, <1>5, <2>1 DEF CloseIsLast, p
  <2>3. /\ Head(inbox[p]) \in Frames \union {Close} /\ Tail(inbox[p]) \in Queue
        /\ Len(Tail(inbox[p])) = Len(inbox[p]) - 1
        /\ ~Gone(q) => /\ Head(inbox[p]) = Passed(q) + 1
                       /\ Carries(Tail(inbox[p]), Passed(q) + 1)
                       /\ Closes(Tail(inbox[p])) <=> Closes(inbox[p])
    BY <1>1, <1>6, <1>7, <1>8, TakeHead, TakeAny DEF Facts
  <2>4. RestInOrder(q)'
    <3>1. SUFFICES ASSUME ~Gone(q)
                   PROVE  /\ Head(inbox[p]) = Passed(q) + 1 /\ Carries(Tail(inbox[p]), Passed(q) + 1)
                          /\ Closes(Tail(inbox[p])) => peer[p] # "open"
                          /\ sent[p] = Passed(q) + 1 + Len(Tail(inbox[p]))
                                        - (IF Closes(Tail(inbox[p])) THEN 1 ELSE 0)
      BY <1>2, <1>6, <1>8, <2>1 DEF RestInOrder, Gone, p
    <3>2. Len(inbox[p]) \in Nat /\ Passed(q) \in Nat
      BY <1>1 DEF Facts, p
    <3>3. CASE Closes(inbox[p])
      BY <1>7, <2>3, <3>1, <3>2, <3>3
    <3>4. CASE ~Closes(inbox[p])
      <4>1. ~Closes(Tail(inbox[p])) /\ sent[p] = Passed(q) + Len(inbox[p])
        BY <1>7, <2>3, <3>1, <3>2, <3>4
      <4>2. sent[p] = Passed(q) + 1 + Len(Tail(inbox[p]))
        BY <2>3, <3>2, <4>1
      <4> QED
        BY <2>3, <3>1, <4>1, <4>2
    <3> QED
      BY <3>3, <3>4
  <2>5. pump'[p] \in PumpState
    BY <1>8, <2>3 DEF PumpState
  <2>6. Shapes'
    BY <1>1, <1>2, <1>8, <2>3, <2>5, ReadShapes DEF RelayInv
  <2> QED
    BY <1>1, <1>2, <1>4, <1>6, <2>2, <2>4, <2>6, BothWays DEF Direction, RelayInv, PeersOK, p
<1>9. CASE /\ inbox[p] # <<>> /\ inbox'[p] = Tail(inbox[p]) /\ Head(inbox[p]) = Close
           /\ pump'[p] = [pc |-> "close", frame |-> Close]
  <2>1. Pumps(p, "close")' /\ ~Pumps(p, "send")' /\ ~Pumps(p, "done")' /\ ~Pumps(p, "read")'
    BY <1>9 DEF Pumps
  <2>2. Tail(inbox[p]) \in Queue
    BY <1>6, <1>9, TakeAny
  <2>3. ~Gone(q) => Passed(q) = sent[p] /\ peer[p] # "open"
    <3>1. SUFFICES ASSUME ~Gone(q) PROVE Passed(q) = sent[p] /\ peer[p] # "open"
      OBVIOUS
    <3>2. Closes(inbox[p]) /\ Len(inbox[p]) = 1
      BY <1>1, <1>6, <1>7, <1>9, <3>1, TakeHead DEF Facts
    <3> QED
      BY <1>1, <1>7, <3>1, <3>2 DEF Facts
  <2>4. RestInOrder(q)' /\ CloseIsLast(q)'
    BY <1>1, <1>2, <1>5, <1>6, <2>1, <2>3 DEF RestInOrder, CloseIsLast, Gone, p
  <2>5. Shapes'
    BY <1>1, <1>2, <1>9, <2>2, CloseState, ReadShapes DEF RelayInv
  <2> QED
    BY <1>1, <1>2, <1>4, <1>6, <2>4, <2>5, BothWays DEF Direction, RelayInv, PeersOK, p
<1>10. CASE Gone(p) /\ inbox'[p] = inbox[p] /\ pump'[p] = [pc |-> "close", frame |-> Close]
  <2>1. Pumps(p, "close")' /\ ~Pumps(p, "send")' /\ ~Pumps(p, "done")' /\ ~Pumps(p, "read")'
    BY <1>10 DEF Pumps
  <2>2. RestInOrder(q)' /\ CloseIsLast(q)'
    BY <1>1, <1>2, <1>5, <1>6, <1>10, <2>1 DEF RestInOrder, CloseIsLast, Gone, p
  <2>3. Shapes'
    BY <1>1, <1>2, <1>6, <1>10, CloseState, ReadShapes DEF RelayInv
  <2> QED
    BY <1>1, <1>2, <1>4, <1>6, <2>2, <2>3, BothWays DEF Direction, RelayInv, PeersOK, p
<1> QED
  BY <1>2, <1>8, <1>9, <1>10

(* The frame a pump holds goes into the outbox of q, or the pump gives up. *)
LEMMA SendShapes ==
    ASSUME Shapes, NEW p \in Peers, NEW q \in Peers, NEW w \in PumpState, NEW b \in Queue,
           pump' = [pump EXCEPT ![p] = w], outbox' = [outbox EXCEPT ![q] = b],
           UNCHANGED <<got, inbox>>
    PROVE  Shapes'
  BY DEF Shapes

LEMMA SendFrameStep == ASSUME RelayInv, NEW q \in Peers, SendFrame(Other(q)) PROVE RelayInv'
<1> DEFINE p == Other(q)
<1>1. p \in Peers /\ q # p /\ Other(p) = q /\ Direction(q) /\ Direction(p) /\ Facts(q)
  BY TwoPeers, FactsOf DEF RelayInv
<1>2. /\ UNCHANGED <<peer, sent, got, inbox>> /\ Pumps(p, "send")
      /\ pump' = [pump EXCEPT ![p] = pump'[p]] /\ outbox' = [outbox EXCEPT ![q] = outbox'[q]]
      /\ \/ /\ ~Gone(q) /\ outbox'[q] = Append(outbox[q], pump[p].frame)
            /\ pump'[p] = [pc |-> "read", frame |-> Close]
         \/ /\ peer[q] # "open" /\ outbox'[q] = outbox[q]
            /\ pump'[p] = [pc |-> "close", frame |-> Close]
  BY <1>1 DEF SendFrame, RelayInv, Shapes
<1> HIDE DEF p
<1>3. pump'[q] = pump[q] /\ outbox'[p] = outbox[p]
  BY <1>1, <1>2 DEF RelayInv, Shapes
<1>4. Direction(p)'
  BY <1>1, <1>2, <1>3, Untouched
<1>5. Held(q) = 1 /\ pump[p].pc = "send" /\ ~Closes(outbox[q]) /\ ~got[q].closed
  BY <1>1, <1>2, NotDone DEF Held, Pumps, p
<1>6. /\ Taken(q)' = Taken(q) /\ outbox[q] \in Queue /\ inbox[p] \in Queue
      /\ Taken(q) \in Nat /\ Passed(q) \in Nat /\ Passed(q) = Taken(q) + Len(outbox[q])
      /\ Len(outbox[q]) \in Nat /\ Len(inbox[p]) \in Nat /\ sent[p] \in Nat
      /\ Carries(outbox[q], Taken(q)) /\ pump[p] \in PumpState
  BY <1>1, <1>2 DEF Passed, Taken, Direction, ReadInOrder, Facts, p
<1>7. CASE /\ ~Gone(q) /\ outbox'[q] = Append(outbox[q], pump[p].frame)
           /\ pump'[p] = [pc |-> "read", frame |-> Close]
  <2>1. /\ pump[p].frame = Passed(q) + 1
        /\ Carries(inbox[p], Passed(q) + Held(q)) /\ (Closes(inbox[p]) => peer[p] # "open")
        /\ sent[p] = Passed(q) + Held(q) + Len(inbox[p]) - (IF Closes(inbox[p]) THEN 1 ELSE 0)
    BY <1>1, <1>2, <1>7 DEF Direction, RestInOrder, p
  <2>2. pump[p].frame \in Frames
    <3>1. pump[p].frame \in Frames \union {Close}
      BY <1>6 DEF PumpState
    <3> QED
      BY <1>6, <2>1, <3>1 DEF Close
  <2>3. /\ outbox'[q] \in Queue /\ Carries(outbox'[q], Taken(q)) /\ ~Closes(outbox'[q])
        /\ Len(outbox'[q]) = Len(outbox[q]) + 1
    <3>1. pump[p].frame = Taken(q) + Len(outbox[q]) + 1
      BY <1>6, <2>1
    <3> QED
      BY <1>5, <1>6, <1>7, <2>2, <3>1, AppendFrame
  <2>4. Pumps(p, "read")' /\ ~Pumps(p, "send")' /\ ~Pumps(p, "close")' /\ ~Pumps(p, "done")'
        /\ Held(q)' = 0
    BY <1>7 DEF Pumps, Held, p
  <2>5. Passed(q)' = Passed(q) + 1
    BY <1>6, <2>3 DEF Passed
  <2>6. ReadInOrder(q)'
    BY <1>1, <1>2, <1>6, <1>7, <2>3, <2>4 DEF Direction, ReadInOrder, Gone, Taken, p
  <2>7. RestInOrder(q)'
    <3>1. Passed(q)' + Held(q)' = Passed(q) + Held(q)
      BY <1>5, <1>6, <2>4, <2>5
    <3> QED
      BY <1>2, <2>1, <2>4, <3>1 DEF RestInOrder, Gone, p
  <2>8. CloseIsLast(q)'
    BY <1>2, <1>5, <2>3, <2>4 DEF CloseIsLast, p
  <2>9. Shapes'
    <3>1. pump'[p] \in PumpState
      BY <1>7, CloseState
    <3> QED
      BY <1>1, <1>2, <2>3, <3>1, SendShapes DEF RelayInv
  <2> QED
    BY <1>1, <1>2, <1>4, <2>6, <2>7, <2>8, <2>9, BothWays DEF Direction, RelayInv, PeersOK, p
<1>8. CASE /\ peer[q] # "open" /\ outbox'[q] = outbox[q]
           /\ pump'[p] = [pc |-> "close", frame |-> Close]
  <2>1. Pumps(p, "close")' /\ ~Pumps(p, "send")' /\ ~Pumps(p, "done")' /\ ~Pumps(p, "read")'
    BY <1>8 DEF Pumps
  <2>2. ReadInOrder(q)'
    BY <1>1, <1>2, <1>5, <1>8 DEF Direction, ReadInOrder, Gone, Taken, p
  <2>3. RestInOrder(q)' /\ CloseIsLast(q)'
    BY <1>2, <1>5, <1>8, <2>1 DEF RestInOrder, CloseIsLast, Gone, p
  <2>4. Shapes'
    BY <1>1, <1>2, <1>6, <1>8, CloseState, SendShapes DEF RelayInv
  <2> QED
    BY <1>1, <1>2, <1>4, <2>2, <2>3, <2>4, BothWays DEF Direction, RelayInv, PeersOK, p
<1> QED
  BY <1>2, <1>7, <1>8

(* The pump ends: a Close goes into the outbox of q, if q is there.        *)
LEMMA CloseOtherStep == ASSUME RelayInv, NEW q \in Peers, CloseOther(Other(q)) PROVE RelayInv'
<1> DEFINE p == Other(q)
<1>1. p \in Peers /\ q # p /\ Other(p) = q /\ Direction(q) /\ Direction(p) /\ Facts(q)
  BY TwoPeers, FactsOf DEF RelayInv
<1>2. /\ UNCHANGED <<peer, sent, got, inbox>> /\ Pumps(p, "close")
      /\ pump' = [pump EXCEPT ![p] = pump'[p]] /\ outbox' = [outbox EXCEPT ![q] = outbox'[q]]
      /\ pump'[p] = [pump[p] EXCEPT !.pc = "done"]
      /\ outbox'[q] = IF Gone(q) THEN outbox[q] ELSE Append(outbox[q], Close)
  BY <1>1 DEF CloseOther, RelayInv, Shapes
<1> HIDE DEF p
<1>3. pump'[q] = pump[q] /\ outbox'[p] = outbox[p]
  BY <1>1, <1>2 DEF RelayInv, Shapes
<1>4. Direction(p)'
  BY <1>1, <1>2, <1>3, Untouched
<1>5. Held(q) = 0 /\ pump[p].pc = "close" /\ ~Closes(outbox[q]) /\ ~got[q].closed
  BY <1>1, <1>2, NotDone DEF Held, Pumps, p
<1>6. /\ Taken(q)' = Taken(q) /\ outbox[q] \in Queue /\ inbox[p] \in Queue
      /\ Taken(q) \in Nat /\ Passed(q) \in Nat /\ Passed(q) = Taken(q) + Len(outbox[q])
      /\ Len(outbox[q]) \in Nat /\ Len(inbox[p]) \in Nat /\ sent[p] \in Nat
      /\ Carries(outbox[q], Taken(q)) /\ pump[p] \in PumpState
  BY <1>1, <1>2 DEF Passed, Taken, Direction, ReadInOrder, Facts, p
<1>7. /\ pump'[p] \in PumpState /\ Pumps(p, "done")'
      /\ ~Pumps(p, "send")' /\ ~Pumps(p, "close")' /\ ~Pumps(p, "read")'
  BY <1>2, <1>6 DEF PumpState, Pumps
<1>8. RestInOrder(q)'
  BY <1>7 DEF RestInOrder, p
<1>9. /\ Append(outbox[q], Close) \in Queue /\ Carries(Append(outbox[q], Close), Taken(q))
      /\ Len(Append(outbox[q], Close)) = Len(outbox[q]) + 1
  BY <1>5, <1>6, AppendClose
<1>10. ReadInOrder(q)'
  BY <1>1, <1>2, <1>6, <1>7, <1>9 DEF Direction, ReadInOrder, Gone, Taken, p
<1>11. CloseIsLast(q)'
  <2>1. CASE Gone(q)
    BY <1>2, <1>5, <1>7, <2>1 DEF CloseIsLast, Gone
  <2>2. CASE ~Gone(q)
    <3>1. Passed(q)' = Passed(q) + 1
      BY <1>2, <1>6, <1>9, <2>2 DEF Passed
    <3>2. ~Gone(p) /\ peer[q] = "open" => Passed(q) = sent[p] /\ peer[p] # "open"
      BY <1>1, <1>2 DEF Direction, CloseIsLast, p
    <3>3. ~Gone(p) /\ peer[q] = "open" => Passed(q)' = sent[p] + 1 /\ peer[p] # "open"
      BY <3>1, <3>2
    <3> QED
      BY <1>2, <1>5, <1>7, <3>3 DEF CloseIsLast, Gone, p
  <2> QED
    BY <2>1, <2>2
<1>12. outbox'[q] \in Queue
  BY <1>2, <1>6, <1>9
<1>13. Shapes'
  BY <1>1, <1>2, <1>7, <1>12, SendShapes DEF RelayInv
<1> QED
  BY <1>1, <1>2, <1>4, <1>8, <1>10, <1>11, <1>13, BothWays DEF Direction, RelayInv, PeersOK, p

------------------------------------------------------------------------------
(* The peers *)

LEMMA SendDataStep == ASSUME RelayInv, NEW q \in Peers, SendData(Other(q)) PROVE RelayInv'
<1> DEFINE p == Other(q)
<1>1. p \in Peers /\ q # p /\ Other(p) = q /\ Direction(q) /\ Direction(p) /\ Facts(q)
  BY TwoPeers, FactsOf DEF RelayInv
<1>2. /\ UNCHANGED <<peer, got, outbox, pump>> /\ peer[p] = "open" /\ sent[p] < MaxFrames
      /\ sent' = [sent EXCEPT ![p] = sent[p] + 1]
      /\ inbox' = [inbox EXCEPT ![p] = Append(inbox[p], sent[p] + 1)]
  BY DEF SendData
<1> HIDE DEF p
<1>3. /\ sent'[q] = sent[q] /\ inbox'[q] = inbox[q] /\ sent'[p] = sent[p] + 1
      /\ inbox'[p] = Append(inbox[p], sent[p] + 1)
  BY <1>1, <1>2 DEF RelayInv, Shapes, PeersOK
<1>4. Direction(p)'
  BY <1>1, <1>2, <1>3, Untouched
<1>5. /\ inbox[p] \in Queue /\ Len(inbox[p]) \in Nat /\ Passed(q) \in Nat
      /\ Held(q) \in 0..1 /\ sent[p] \in Nat
  BY <1>1 DEF Facts, p
<1>6. sent[p] + 1 \in Frames /\ sent[p] + 1 \in 0..MaxFrames
  BY <1>2, <1>5, RelayAssumption DEF Frames
<1>7. ReadInOrder(q)' /\ Passed(q)' = Passed(q) /\ Held(q)' = Held(q)
  BY <1>1, <1>2 DEF Direction, ReadInOrder, Passed, Held, Taken, Gone, Pumps
<1>8. CloseIsLast(q)'
  <2>1. ~got[q].closed /\ (peer[q] = "open" => ~Pumps(p, "close") /\ ~Closes(outbox[q]))
    BY <1>1, <1>2 DEF Direction, CloseIsLast, Gone, p
  <2> QED
    BY <1>2, <2>1 DEF CloseIsLast, Gone, Pumps, p
<1>9. RestInOrder(q)'
  <2>1. SUFFICES ASSUME ~Gone(q), Pumps(p, "read") \/ Pumps(p, "send") PROVE RestInOrder(q)'
    BY <1>2 DEF RestInOrder, Gone, Pumps, p
  <2>2. /\ Pumps(p, "send") => pump[p].frame = Passed(q) + 1
        /\ Carries(inbox[p], Passed(q) + Held(q)) /\ ~Closes(inbox[p])
        /\ sent[p] = Passed(q) + Held(q) + Len(inbox[p])
    <3>1. /\ Pumps(p, "send") => pump[p].frame = Passed(q) + 1
          /\ Carries(inbox[p], Passed(q) + Held(q)) /\ ~Closes(inbox[p])
          /\ sent[p] = Passed(q) + Held(q) + Len(inbox[p]) - (IF Closes(inbox[p]) THEN 1 ELSE 0)
      BY <1>1, <1>2, <2>1 DEF Direction, RestInOrder, p
    <3>2. sent[p] = Passed(q) + Held(q) + Len(inbox[p]) - 0
      BY <3>1
    <3> QED
      BY <1>5, <3>1, <3>2
  <2>3. Passed(q) + Held(q) \in Nat /\ sent[p] + 1 = (Passed(q) + Held(q)) + Len(inbox[p]) + 1
    BY <1>5, <2>2
  <2>4. /\ Carries(inbox'[p], Passed(q) + Held(q)) /\ ~Closes(inbox'[p])
        /\ Len(inbox'[p]) = Len(inbox[p]) + 1
    BY <1>3, <1>5, <1>6, <2>2, <2>3, AppendFrame
  <2>5. sent'[p] = Passed(q) + Held(q) + Len(inbox'[p]) - 0
    BY <1>3, <1>5, <2>3, <2>4
  <2> QED
    BY <1>2, <1>7, <2>2, <2>4, <2>5 DEF RestInOrder, Pumps, p
<1>10. Shapes' /\ PeersOK'
  <2>1. Append(inbox[p], sent[p] + 1) \in Queue
    BY <1>5, <1>6 DEF Queue
  <2> QED
    BY <1>1, <1>2, <1>6, <2>1 DEF RelayInv, Shapes, PeersOK
<1> QED
  BY <1>1, <1>4, <1>7, <1>8, <1>9, <1>10, BothWays DEF Direction, p

(* The Close of a peer that was open goes behind all of its frames.        *)
LEMMA Closing ==
    ASSUME NEW q \in Peers, Facts(q), Direction(q),
           peer[Other(q)] = "open", peer'[Other(q)] = "closing", peer'[q] = peer[q],
           sent' = sent, pump' = pump, got'[q] = got[q], outbox'[q] = outbox[q],
           inbox'[Other(q)] = Append(inbox[Other(q)], Close)
    PROVE  Direction(q)'
<1> DEFINE p == Other(q)
<1>1. /\ peer[p] = "open" /\ peer'[p] = "closing" /\ inbox'[p] = Append(inbox[p], Close)
      /\ inbox[p] \in Queue /\ Len(inbox[p]) \in Nat /\ Passed(q) \in Nat
      /\ Held(q) \in 0..1 /\ sent[p] \in Nat
  BY DEF Facts
<1> HIDE DEF p
<1>2. ReadInOrder(q)' /\ Passed(q)' = Passed(q) /\ Held(q)' = Held(q)
  BY DEF Direction, ReadInOrder, Passed, Held, Taken, Gone, Pumps
<1>3. CloseIsLast(q)'
  <2>1. ~got[q].closed /\ (peer[q] = "open" => ~Pumps(p, "close") /\ ~Closes(outbox[q]))
    BY <1>1 DEF Direction, CloseIsLast, Gone, p
  <2> QED
    BY <1>1, <2>1 DEF CloseIsLast, Gone, Pumps, p
<1>4. RestInOrder(q)'
  <2>1. SUFFICES ASSUME ~Gone(q), Pumps(p, "read") \/ Pumps(p, "send") PROVE RestInOrder(q)'
    BY DEF RestInOrder, Gone, Pumps, p
  <2>2. /\ Pumps(p, "send") => pump[p].frame = Passed(q) + 1
        /\ Carries(inbox[p], Passed(q) + Held(q)) /\ ~Closes(inbox[p])
        /\ sent[p] = Passed(q) + Held(q) + Len(inbox[p]) - (IF Closes(inbox[p]) THEN 1 ELSE 0)
    BY <1>1, <2>1 DEF Direction, RestInOrder, p
  <2>3. sent[p] = Passed(q) + Held(q) + Len(inbox[p]) - 0
    BY <2>2
  <2>4. Passed(q) + Held(q) \in Nat
    BY <1>1
  <2>5. /\ Carries(inbox'[p], Passed(q) + Held(q)) /\ Closes(inbox'[p])
        /\ Len(inbox'[p]) = Len(inbox[p]) + 1
    BY <1>1, <2>2, <2>4, AppendClose
  <2>6. sent[p] = Passed(q) + Held(q) + Len(inbox'[p]) - 1
    BY <1>1, <2>3, <2>5
  <2> QED
    BY <1>1, <1>2, <2>2, <2>5, <2>6 DEF RestInOrder, Pumps, p
<1> QED
  BY <1>2, <1>3, <1>4 DEF Direction

LEMMA SendCloseStep == ASSUME RelayInv, NEW q \in Peers, SendClose(Other(q)) PROVE RelayInv'
<1> DEFINE p == Other(q)
<1>1. p \in Peers /\ q # p /\ Other(p) = q /\ Direction(q) /\ Direction(p) /\ Facts(q)
  BY TwoPeers, FactsOf DEF RelayInv
<1>2. /\ UNCHANGED <<sent, got, outbox, pump>> /\ peer[p] = "open"
      /\ peer' = [peer EXCEPT ![p] = "closing"]
      /\ inbox' = [inbox EXCEPT ![p] = Append(inbox[p], Close)]
  BY DEF SendClose
<1> HIDE DEF p
<1>3. /\ peer'[q] = peer[q] /\ peer'[p] = "closing" /\ inbox'[q] = inbox[q]
      /\ inbox'[p] = Append(inbox[p], Close)
  BY <1>1, <1>2 DEF RelayInv, Shapes, PeersOK
<1>4. Direction(p)'
  BY <1>1, <1>2, <1>3, Untouched DEF Gone
<1>5. Direction(q)'
  BY <1>1, <1>2, <1>3, Closing DEF p
<1>6. Append(inbox[p], Close) \in Queue
  BY <1>1 DEF Queue, Facts, p
<1>7. Shapes' /\ PeersOK'
  BY <1>1, <1>2, <1>6 DEF RelayInv, Shapes, PeersOK
<1> QED
  BY <1>1, <1>4, <1>5, <1>7, BothWays DEF p

(* The tab is closed, the container is stopped.                            *)
LEMMA VanishStep == ASSUME RelayInv, NEW p \in Peers, Vanish(p) PROVE RelayInv'
<1> DEFINE q == Other(p)
<1>1. q \in Peers /\ q # p /\ Other(q) = p /\ Direction(q) /\ Direction(p) /\ Facts(p)
  BY TwoPeers, FactsOf DEF RelayInv
<1>2. /\ UNCHANGED <<sent, got, inbox, pump>> /\ ~Gone(p)
      /\ peer' = [peer EXCEPT ![p] = "gone"] /\ outbox' = [outbox EXCEPT ![p] = <<>>]
  BY DEF Vanish
<1> HIDE DEF q
<1>3. peer'[q] = peer[q] /\ peer'[p] = "gone" /\ outbox'[q] = outbox[q] /\ outbox'[p] = <<>>
  BY <1>1, <1>2 DEF RelayInv, Shapes, PeersOK
<1>4. Direction(q)'
  <2>1. ReadInOrder(q)' /\ Passed(q)' = Passed(q) /\ Held(q)' = Held(q)
    BY <1>1, <1>2, <1>3 DEF Direction, ReadInOrder, Passed, Held, Taken, Gone, Pumps
  <2>2. RestInOrder(q)'
    BY <1>1, <1>2, <1>3, <2>1 DEF Direction, RestInOrder, Gone, Pumps
  <2>3. CloseIsLast(q)'
    BY <1>1, <1>2, <1>3 DEF Direction, CloseIsLast, Gone, Pumps
  <2> QED
    BY <2>1, <2>2, <2>3 DEF Direction
<1>5. Direction(p)'
  <2>1. Carries(<<>>, Taken(p)) /\ ~Closes(<<>>)
    BY DEF Carries, Closes
  <2>2. Gone(p)' /\ Taken(p)' = Taken(p)
    BY <1>2, <1>3 DEF Gone, Taken
  <2>3. ReadInOrder(p)'
    BY <1>1, <1>2, <1>3, <2>1, <2>2 DEF Direction, ReadInOrder
  <2>4. RestInOrder(p)'
    BY <2>2 DEF RestInOrder
  <2>5. CloseIsLast(p)'
    BY <1>1, <1>2, <1>3, <2>2 DEF Direction, CloseIsLast, Gone, Pumps, q
  <2> QED
    BY <2>3, <2>4, <2>5 DEF Direction
<1>6. Shapes' /\ PeersOK'
  BY <1>1, <1>2 DEF RelayInv, Shapes, PeersOK, Queue
<1> QED
  BY <1>1, <1>4, <1>5, <1>6, BothWays DEF q

(* A frame or a Close leaves the outbox of p, which answers a first Close. *)
LEMMA TakeFrameStep == ASSUME RelayInv, NEW p \in Peers, TakeFrame(p) PROVE RelayInv'
<1> DEFINE q == Other(p)
<1>1. q \in Peers /\ q # p /\ Other(q) = p /\ Direction(q) /\ Direction(p) /\ Facts(p) /\ Facts(q)
  BY TwoPeers, FactsOf DEF RelayInv
<1>2. /\ UNCHANGED <<sent, pump>> /\ ~Gone(p) /\ outbox[p] # <<>>
      /\ outbox' = [outbox EXCEPT ![p] = Tail(outbox[p])]
  BY DEF TakeFrame
<1>3. /\ outbox[p] \in Queue /\ Taken(p) \in Nat /\ Carries(outbox[p], Taken(p))
      /\ Len(outbox[p]) \in Nat /\ inbox[p] \in Queue
      /\ got[p] \in [frames : Seq(Nat), closed : BOOLEAN]
      /\ \A i \in 1..Taken(p) : got[p].frames[i] = i
      /\ Closes(outbox[p]) => Pumps(q, "done")
  BY <1>1 DEF Facts, Direction, ReadInOrder
<1>4. /\ Head(outbox[p]) \in Frames \union {Close} /\ Tail(outbox[p]) \in Queue
      /\ Len(Tail(outbox[p])) = Len(outbox[p]) - 1
      /\ Head(outbox[p]) # Close => /\ Head(outbox[p]) = Taken(p) + 1
                                    /\ Carries(Tail(outbox[p]), Taken(p) + 1)
                                    /\ Closes(Tail(outbox[p])) <=> Closes(outbox[p])
      /\ Head(outbox[p]) = Close =>
            Closes(outbox[p]) /\ Len(outbox[p]) = 1 /\ Tail(outbox[p]) = <<>>
  BY <1>2, <1>3, TakeHead
<1> HIDE DEF q
<1>5. outbox'[q] = outbox[q] /\ outbox'[p] = Tail(outbox[p])
  BY <1>1, <1>2 DEF RelayInv, Shapes
<1>6. CASE Head(outbox[p]) # Close
  <2>1. /\ UNCHANGED <<peer, inbox>>
        /\ got' = [got EXCEPT ![p].frames = Append(@, Head(outbox[p]))]
    BY <1>6 DEF TakeFrame
  <2>2. /\ got'[q] = got[q] /\ got'[p].frames = Append(got[p].frames, Taken(p) + 1)
        /\ got'[p].closed = got[p].closed /\ got' \in [Peers -> [frames : Seq(Nat), closed : BOOLEAN]]
    <3>1. got'[p] = [got[p] EXCEPT !.frames = Append(@, Taken(p) + 1)]
          /\ got' = [got EXCEPT ![p] = got'[p]] /\ got'[q] = got[q]
      BY <1>1, <1>4, <1>6, <2>1 DEF RelayInv, Shapes
    <3>2. Append(got[p].frames, Taken(p) + 1) \in Seq(Nat)
      BY <1>3
    <3>3. got'[p].frames = Append(got[p].frames, Taken(p) + 1) /\ got'[p].closed = got[p].closed
      BY <1>3, <3>1
    <3>4. got'[p] \in [frames : Seq(Nat), closed : BOOLEAN]
      BY <1>3, <3>1, <3>2
    <3> QED
      BY <1>1, <3>1, <3>3, <3>4 DEF RelayInv, Shapes
  <2>3. Direction(q)'
    BY <1>1, <1>2, <1>5, <2>1, <2>2, Untouched
  <2>4. Taken(p)' = Taken(p) + 1 /\ \A i \in 1..(Taken(p) + 1) : got'[p].frames[i] = i
    BY <1>3, <2>2 DEF Taken
  <2>5. Passed(p)' = Passed(p) /\ Held(p)' = Held(p)
    <3>1. Taken(p) + 1 + (Len(outbox[p]) - 1) = Taken(p) + Len(outbox[p])
      BY <1>3
    <3>2. Passed(p)' = Passed(p)
      BY <1>4, <1>5, <2>4, <3>1 DEF Passed
    <3> QED
      BY <1>2, <3>2 DEF Held, Pumps
  <2>6. ReadInOrder(p)'
    <3>1. Carries(outbox'[p], Taken(p)') /\ (Closes(outbox'[p]) => Pumps(q, "done")')
      BY <1>2, <1>3, <1>4, <1>5, <1>6, <2>4 DEF Pumps
    <3> QED
      BY <1>2, <2>1, <2>2, <2>4, <3>1, <1>3 DEF ReadInOrder, Gone, q
  <2>7. RestInOrder(p)'
    BY <1>1, <1>2, <2>1, <2>5 DEF Direction, RestInOrder, Gone, Pumps
  <2>8. CloseIsLast(p)'
    <3>1. ~got[p].closed /\ (Closes(outbox'[p]) <=> Closes(outbox[p]))
      BY <1>1, <1>2, <1>4, <1>5, <1>6 DEF Direction, CloseIsLast
    <3> QED
      BY <1>1, <1>2, <2>1, <2>2, <2>5, <3>1 DEF Direction, CloseIsLast, Gone, Pumps
  <2>9. Shapes'
    BY <1>1, <1>2, <1>4, <2>1, <2>2 DEF RelayInv, Shapes
  <2> QED
    BY <1>1, <1>2, <2>1, <2>3, <2>6, <2>7, <2>8, <2>9, BothWays DEF Direction, RelayInv, PeersOK, q
<1>7. CASE Head(outbox[p]) = Close
  <2>1. /\ got' = [got EXCEPT ![p].closed = (@ \/ peer[p] = "open")]
        /\ peer' = [peer EXCEPT ![p] = "closing"]
        /\ inbox' = IF peer[p] = "open" THEN [inbox EXCEPT ![p] = Append(@, Close)] ELSE inbox
    BY <1>7 DEF TakeFrame
  <2>2. /\ peer'[p] = "closing" /\ peer'[q] = peer[q] /\ inbox'[q] = inbox[q]
        /\ inbox'[p] = IF peer[p] = "open" THEN Append(inbox[p], Close) ELSE inbox[p]
        /\ inbox' = [inbox EXCEPT ![p] = inbox'[p]]
    BY <1>1, <2>1 DEF RelayInv, PeersOK, Shapes
  <2>3. /\ got'[q] = got[q] /\ got'[p].frames = got[p].frames
        /\ got'[p].closed = (got[p].closed \/ peer[p] = "open")
        /\ got' \in [Peers -> [frames : Seq(Nat), closed : BOOLEAN]]
    BY <1>1, <2>1 DEF RelayInv, Shapes
  <2>4. Direction(q)'
    <3>1. CASE peer[p] = "open"
      BY <1>1, <1>2, <1>5, <2>2, <2>3, <3>1, Closing
    <3>2. CASE peer[p] # "open"
      <4>1. peer[p] = "closing"
        BY <1>1, <1>2, <3>2 DEF Facts, Gone
      <4> QED
        BY <1>1, <1>2, <1>5, <2>2, <2>3, <3>2, <4>1, Untouched
    <3> QED
      BY <3>1, <3>2
  <2>5. outbox'[p] = <<>> /\ Pumps(q, "done") /\ Pumps(q, "done")' /\ Taken(p)' = Taken(p)
        /\ Passed(p) = Taken(p) + 1 /\ Closes(outbox[p])
    BY <1>2, <1>3, <1>4, <1>5, <1>7, <2>3 DEF Pumps, Taken, Passed
  <2>6. ReadInOrder(p)'
    <3>1. Carries(<<>>, Taken(p)) /\ ~Closes(<<>>)
      BY DEF Carries, Closes
    <3> QED
      BY <1>3, <2>3, <2>5, <3>1 DEF ReadInOrder
  <2>7. RestInOrder(p)'
    BY <2>5 DEF RestInOrder, Pumps, q
  <2>8. CloseIsLast(p)'
    <3>1. ~got[p].closed
      BY <1>1, <1>2 DEF Direction, CloseIsLast
    <3>2. ~Gone(q) /\ peer[p] = "open" => Passed(p) = sent[q] + 1 /\ peer[q] # "open"
      BY <1>1, <2>5 DEF Direction, CloseIsLast, q
    <3>3. ~Gone(q) /\ peer[p] = "open" => Taken(p) = sent[q] /\ peer[q] # "open"
      BY <1>1, <1>3, <2>5, <3>2 DEF Facts, q
    <3>4. got'[p].closed = (peer[p] = "open")
      BY <2>3, <3>1
    <3> QED
      BY <1>2, <2>2, <2>5, <3>3, <3>4 DEF CloseIsLast, Gone, q
  <2>9. Shapes'
    <3>1. inbox'[p] \in Queue
      BY <1>3, <2>2 DEF Queue
    <3> QED
      BY <1>1, <1>2, <1>4, <2>2, <2>3, <3>1 DEF RelayInv, Shapes
  <2>10. PeersOK'
    BY <1>2, <2>1 DEF RelayInv, PeersOK
  <2> QED
    BY <1>1, <2>4, <2>6, <2>7, <2>8, <2>9, <2>10, BothWays DEF Direction, q
<1> QED
  BY <1>6, <1>7

------------------------------------------------------------------------------
(* The relay *)

(* A relay on new connections, whether the container answers or not        *)
LEMMA NewRelay == InitRelay => RelayInv
<1> SUFFICES ASSUME InitRelay PROVE RelayInv
  OBVIOUS
<1>1. PeersOK
  BY RelayAssumption DEF InitRelay, PeersOK
<1>2. /\ \A p \in Peers : peer[p] = "open" /\ sent[p] = 0 /\ inbox[p] = <<>> /\ outbox[p] = <<>>
      /\ \A p \in Peers : got[p].frames = <<>> /\ ~got[p].closed /\ ~Gone(p)
      /\ \A p \in Peers : pump[p] \in PumpState /\ (Pumps(p, "read") \/ Pumps(p, "done"))
      /\ \A p \in Peers : ~Pumps(p, "send") /\ ~Pumps(p, "close")
  BY CloseState DEF InitRelay, Dialled, Pumps, Gone
<1>3. Shapes
  <2>1. pump \in [Peers -> PumpState]
    BY CloseState DEF InitRelay, Dialled
  <2>2. <<>> \in Queue /\ <<>> \in Seq(Nat)
    BY DEF Queue
  <2> QED
    BY <2>1, <2>2 DEF InitRelay, Shapes
<1>4. ASSUME NEW p \in Peers PROVE Direction(p)
  <2> DEFINE q == Other(p)
  <2>1. q \in Peers
    BY TwoPeers
  <2>2. Carries(<<>>, 0) /\ ~Closes(<<>>) /\ Len(<<>>) = 0
    BY DEF Carries, Closes
  <2>3. Taken(p) = 0 /\ Passed(p) = 0 /\ Held(p) = 0
    <3>1. got[p].frames = <<>> /\ outbox[p] = <<>> /\ ~Pumps(q, "send")
      BY <1>2, <2>1
    <3> QED
      BY <2>2, <3>1 DEF Taken, Passed, Held
  <2>4. ReadInOrder(p)
    <3>1. got[p].frames \in Seq(Nat)
      BY <1>3 DEF Shapes
    <3>2. \A i \in 1..Taken(p) : got[p].frames[i] = i
      BY <2>3
    <3>3. Carries(outbox[p], Taken(p)) /\ ~Closes(outbox[p]) /\ ~Gone(p)
      BY <1>2, <2>2, <2>3
    <3> QED
      BY <3>1, <3>2, <3>3 DEF ReadInOrder
  <2>5. RestInOrder(p)
    <3>1. Carries(inbox[q], Passed(p) + Held(p)) /\ ~Closes(inbox[q]) /\ ~Pumps(q, "send")
          /\ sent[q] = Passed(p) + Held(p) + Len(inbox[q]) - 0
      <4>1. inbox[q] = <<>> /\ sent[q] = 0 /\ ~Pumps(q, "send")
        BY <1>2, <2>1
      <4> QED
        BY <2>2, <2>3, <4>1
    <3> QED
      BY <3>1 DEF RestInOrder
  <2>6. CloseIsLast(p)
    BY <1>2, <2>1, <2>2 DEF CloseIsLast
  <2> QED
    BY <2>4, <2>5, <2>6 DEF Direction
<1> QED
  BY <1>1, <1>3, <1>4 DEF RelayInv

LEMMA Stutter == RelayInv /\ UNCHANGED drVars => RelayInv'
<1> SUFFICES ASSUME RelayInv, UNCHANGED drVars PROVE RelayInv'
  OBVIOUS
<1>1. Shapes' /\ PeersOK'
  BY DEF RelayInv, drVars, Shapes, PeersOK
<1>2. \A p \in Peers : Direction(p)'
  BY Untouched DEF RelayInv, drVars
<1> QED
  BY <1>1, <1>2 DEF RelayInv

LEMMA NextRelayInv == RelayInv /\ [RelayNext]_drVars => RelayInv'
<1> SUFFICES ASSUME RelayInv, [RelayNext]_drVars PROVE RelayInv'
  OBVIOUS
<1>1. CASE UNCHANGED drVars
  BY <1>1, Stutter
<1>2. ASSUME NEW p \in Peers, Pump(p) \/ SendData(p) \/ SendClose(p) \/ TakeFrame(p) \/ Vanish(p)
      PROVE  RelayInv'
  <2>1. Other(p) \in Peers /\ Other(Other(p)) = p
    BY TwoPeers
  <2> QED
    BY <1>2, <2>1, ReadFrameStep, SendFrameStep, CloseOtherStep, SendDataStep, SendCloseStep,
       TakeFrameStep, VanishStep DEF Pump
<1>3. CASE Reconnect
  <2>1. InitRelay'
    BY <1>3 DEF Reconnect, InitRelay, Dialled
  <2> QED
    BY <2>1, NewRelay, PTL
<1> QED
  BY <1>1, <1>2, <1>3 DEF RelayNext

(* The pumps carry the frames of each side to the other in order, and a    *)
(* Close behind all of them (desktop_proxy.rs:178-241).                    *)
THEOREM RelayInvariance == RelaySpec => []RelayInv
  BY NewRelay, NextRelayInv, PTL DEF RelaySpec

LEMMA Transparent == RelayInv => RelayIsTransparent
<1> SUFFICES ASSUME RelayInv, NEW p \in Peers
             PROVE  /\ got[p].frames = [i \in 1..Len(got[p].frames) |-> i]
                    /\ got[p].closed /\ ~Gone(Other(p)) => Len(got[p].frames) = sent[Other(p)]
  BY DEF RelayIsTransparent
<1>1. got[p].frames \in Seq(Nat) /\ \A i \in 1..Len(got[p].frames) : got[p].frames[i] = i
  BY DEF RelayInv, Direction, ReadInOrder, Taken
<1>2. got[p].frames = [i \in 1..Len(got[p].frames) |-> i]
  BY <1>1
<1>3. got[p].closed /\ ~Gone(Other(p)) => Len(got[p].frames) = sent[Other(p)]
  BY DEF RelayInv, Direction, CloseIsLast, Taken
<1> QED
  BY <1>2, <1>3

(* Whatever is sent and however either connection ends, a peer has read    *)
(* the other one's frames in order and without a gap, and all of them when *)
(* the relay closes it for no reason of its own (desktop_proxy.rs:206-241).*)
THEOREM FramesPassInOrder == RelaySpec => []RelayIsTransparent
  BY RelayInvariance, Transparent, PTL
================================================================================
