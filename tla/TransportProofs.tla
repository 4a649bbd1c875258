--------------------------- MODULE TransportProofs ---------------------------
(***************************************************************************)
(* A call over the RPC socket is applied at most once and answered         *)
(* truthfully, for any calls, any number of connections and frames of any  *)
(* length.                                                                 *)
(***************************************************************************)
EXTENDS Transport, TLAPS

Client == [pc : {"idle", "send", "recv", "over"}, sent : Nat, got : Nat,
           result : {"none", "ok", "error", "unknown"}]
Wire == [to : Nat, from : Nat, backlog : BOOLEAN, cut : BOOLEAN, hup : BOOLEAN]
Peer == [here : BOOLEAN, in : Nat, out : {"none", "ok", "error"}, sent : Nat, late : BOOLEAN]

Shape ==
    /\ client \in [Calls -> Client]
    /\ wire \in [Calls -> Wire]
    /\ peer \in [Calls -> Peer]
    /\ applied \in [Calls -> Nat]

\* A frame has a piece at all.
Framed == Pieces \in Nat \ {0}

\* Every piece the client sent is on its way or has arrived, and none is sent
\* after the last.
Flow(c) ==
    /\ peer[c].in + wire[c].to = client[c].sent
    /\ Framed => client[c].sent <= Pieces
    /\ Framed /\ client[c].pc \in {"idle", "send"} => client[c].sent < Pieces

\* The reply in the peer's buffer tells what the dispatch did.
Answer(c) ==
    /\ peer[c].out = "none" => applied[c] = 0
    /\ peer[c].out = "ok" => applied[c] = 1
    /\ applied[c] = 1 => Framed /\ client[c].sent = Pieces
    /\ applied[c] <= 1
    /\ client[c].result = "ok" => applied[c] = 1

\* The inductive invariant.
IInv == Shape /\ \A c \in Calls : Flow(c) /\ Answer(c)

\* A piece of the reply is written.
LEMMA WrotePiece ==
    ASSUME NEW k \in Peer, NEW n \in Nat, NEW p \in BOOLEAN
    PROVE  /\ [k EXCEPT !.sent = n, !.here = p] \in Peer
           /\ [k EXCEPT !.sent = n, !.here = p].in = k.in
           /\ [k EXCEPT !.sent = n, !.here = p].out = k.out
  BY Zenon DEF Peer
LEMMA WireFilled ==
    ASSUME NEW k \in Wire, NEW n \in Nat, NEW p \in BOOLEAN
    PROVE  [k EXCEPT !.from = n, !.cut = p] \in Wire /\ [k EXCEPT !.from = n, !.cut = p].to = k.to
  BY Zenon DEF Wire

LEMMA InitIInv == Init => IInv
  BY DEF Init, IInv, Shape, Client, Wire, Peer, NoPeer, Flow, Answer, Framed

\* A step that moves one call.
LEMMA OneCall ==
    ASSUME IInv, NEW c \in Calls, Shape', Flow(c)', Answer(c)',
           \A o \in Calls \ {c} : /\ client'[o] = client[o] /\ wire'[o] = wire[o]
                                  /\ peer'[o] = peer[o] /\ applied'[o] = applied[o]
    PROVE  IInv'
  BY DEF IInv, Flow, Answer, Framed

\* The call ends; it reports success only when the reply did.
LEMMA OverStep ==
    ASSUME IInv, NEW c \in Calls, NEW result \in {"none", "ok", "error", "unknown"}, Over(c, result),
           result = "ok" => applied[c] = 1
    PROVE  IInv'
  <1>1. client[c] \in Client /\ wire[c] \in Wire
    BY Zenon DEF IInv, Shape
  <1>2. Shape'
    BY <1>1, Zenon DEF IInv, Shape, Over, Client, Wire
  <1>3. /\ client'[c] = [client[c] EXCEPT !.pc = "over", !.result = result]
        /\ wire'[c] = [wire[c] EXCEPT !.hup = TRUE]
        /\ UNCHANGED <<peer, applied>>
    BY Zenon DEF IInv, Shape, Over
  <1>4. Flow(c)' /\ Answer(c)'
    BY <1>1, <1>3 DEF IInv, Flow, Answer, Framed, Client, Wire
  <1>5. \A o \in Calls \ {c} : client'[o] = client[o] /\ wire'[o] = wire[o]
    BY Zenon DEF IInv, Shape, Over
  <1> QED BY <1>2, <1>3, <1>4, <1>5, OneCall, Zenon

\* request_rpc.
LEMMA ClientStep ==
    ASSUME IInv, NEW c \in Calls, Connect(c) \/ Send(c) \/ Recv(c) \/ ClientLate(c)
    PROVE  IInv'
  <1>0. client[c] \in Client /\ wire[c] \in Wire /\ peer[c] \in Peer /\ applied[c] \in Nat /\ Flow(c) /\ Answer(c)
    BY Zenon DEF IInv, Shape
  <1>1. CASE Over(c, "unknown")
    BY <1>1, OverStep, Zenon
  <1>2. CASE Over(c, peer[c].out)
    BY <1>0, <1>2, OverStep, Zenon DEF Peer, Answer
  <1>3. ASSUME NEW f \in Client, NEW w \in Wire,
               client' = [client EXCEPT ![c] = f], wire' = [wire EXCEPT ![c] = w], UNCHANGED <<peer, applied>>,
               f.result = client[c].result,
               peer[c].in + w.to = f.sent,
               Framed => f.sent <= Pieces,
               Framed /\ f.pc \in {"idle", "send"} => f.sent < Pieces,
               applied[c] = 1 => f.sent = Pieces
        PROVE  IInv'
    <2>1. Shape'
      BY <1>3, Zenon DEF IInv, Shape
    <2>2. /\ client'[c] = f /\ wire'[c] = w /\ UNCHANGED <<peer, applied>>
          /\ \A o \in Calls \ {c} : client'[o] = client[o] /\ wire'[o] = wire[o]
      BY <1>3, Zenon DEF IInv, Shape
    <2>3. Flow(c)' /\ Answer(c)'
      BY <1>0, <1>3, <2>2, Zenon DEF Flow, Answer, Framed
    <2> QED BY <2>1, <2>2, <2>3, OneCall, Zenon
  <1>4. CASE Connect(c) /\ server = "up"
    <2>1. /\ client' = [client EXCEPT ![c] = [client[c] EXCEPT !.pc = "send"]]
          /\ wire' = [wire EXCEPT ![c] = [wire[c] EXCEPT !.backlog = TRUE]]
          /\ client[c].pc = "idle" /\ UNCHANGED <<peer, applied>>
      BY <1>4, Zenon DEF Connect, IInv, Shape
    <2> QED BY <1>0, <1>3, <2>1, Zenon DEF Client, Wire, Flow, Answer
  <1>5. CASE Send(c) /\ ~wire[c].cut
    <2> DEFINE f == [client[c] EXCEPT !.sent = client[c].sent + 1,
                                      !.pc = IF client[c].sent + 1 = Pieces THEN "recv" ELSE "send"]
               w == [wire[c] EXCEPT !.to = wire[c].to + 1]
    <2>1. client' = [client EXCEPT ![c] = f] /\ wire' = [wire EXCEPT ![c] = w] /\ UNCHANGED <<peer, applied>>
      <3>1. /\ client' = [client EXCEPT ![c].sent = @ + 1,
                                        ![c].pc = IF client[c].sent + 1 = Pieces THEN "recv" ELSE "send"]
            /\ wire' = [wire EXCEPT ![c].to = @ + 1] /\ UNCHANGED <<peer, applied>>
        BY <1>5, Zenon DEF Send
      <3>2. client' = [client EXCEPT ![c] = f]
        BY <1>0, <3>1, Zenon DEF IInv, Shape, Client
      <3>3. wire' = [wire EXCEPT ![c] = w]
        BY <1>0, <3>1, Zenon DEF IInv, Shape, Wire
      <3> QED BY <3>1, <3>2, <3>3, Zenon
    <2>2. client[c].pc = "send"
      BY <1>5, Zenon DEF Send
    <2>3. w \in Wire /\ w.to = wire[c].to + 1 /\ client[c].sent + 1 \in Nat
      BY <1>0 DEF Client, Wire
    <2>4. /\ f \in Client /\ f.result = client[c].result /\ f.sent = client[c].sent + 1
          /\ f.pc = IF client[c].sent + 1 = Pieces THEN "recv" ELSE "send"
      <3>1. PICK n \in Nat : n = client[c].sent + 1
        BY <2>3, Zenon
      <3>2. PICK p \in {"send", "recv"} : p = IF client[c].sent + 1 = Pieces THEN "recv" ELSE "send"
        BY Zenon
      <3>3. f = [client[c] EXCEPT !.sent = n, !.pc = p]
        BY <3>1, <3>2, Zenon
      <3>4. /\ [client[c] EXCEPT !.sent = n, !.pc = p] \in Client
            /\ [client[c] EXCEPT !.sent = n, !.pc = p].result = client[c].result
            /\ [client[c] EXCEPT !.sent = n, !.pc = p].sent = n
            /\ [client[c] EXCEPT !.sent = n, !.pc = p].pc = p
        BY <1>0, Zenon DEF Client
      <3> HIDE DEF f
      <3> QED BY <3>1, <3>2, <3>3, <3>4, Zenon
    <2>5. /\ client[c].sent \in Nat /\ wire[c].to \in Nat /\ peer[c].in \in Nat
          /\ peer[c].in + wire[c].to = client[c].sent
          /\ Framed => client[c].sent < Pieces
          /\ applied[c] = 1 => Framed /\ client[c].sent = Pieces
      BY <1>0, <2>2, Zenon DEF Client, Wire, Peer, Flow, Answer
    <2>6. /\ peer[c].in + w.to = f.sent
          /\ Framed => f.sent <= Pieces
          /\ Framed /\ f.pc \in {"idle", "send"} => f.sent < Pieces
          /\ applied[c] # 1
      BY <2>4, <2>5 DEF Framed
    <2> HIDE DEF f, w
    <2> QED BY <1>3, <2>1, <2>3, <2>4, <2>6, Zenon
  <1>6. CASE Recv(c) /\ wire[c].from > 0 /\ client[c].got + 1 # Pieces
    <2>1. /\ client' = [client EXCEPT ![c] = [client[c] EXCEPT !.got = client[c].got + 1]]
          /\ wire' = [wire EXCEPT ![c] = [wire[c] EXCEPT !.from = wire[c].from - 1]]
          /\ UNCHANGED <<peer, applied>>
      BY <1>6, Zenon DEF Recv, IInv, Shape
    <2>2. /\ [client[c] EXCEPT !.got = client[c].got + 1] \in Client
          /\ [wire[c] EXCEPT !.from = wire[c].from - 1] \in Wire
      BY <1>0, <1>6 DEF Client, Wire
    <2> QED BY <1>0, <1>3, <2>1, <2>2, Zenon DEF Client, Wire, Flow, Answer
  <1> QED BY <1>1, <1>2, <1>4, <1>5, <1>6, Zenon DEF Connect, Send, Recv, ClientLate

\* serve_rpc: the steps that dispatch nothing.
LEMMA PeerStep ==
    ASSUME IInv, NEW c \in Calls, NEW p \in Peer, NEW w \in Wire,
           peer' = [peer EXCEPT ![c] = p], wire' = [wire EXCEPT ![c] = w], UNCHANGED <<client, applied>>,
           p.in + w.to = peer[c].in + wire[c].to,
           p.out = peer[c].out \/ (peer[c].out = "none" /\ p.out = "error")
    PROVE  IInv'
  <1>0. client[c] \in Client /\ wire[c] \in Wire /\ peer[c] \in Peer /\ Flow(c) /\ Answer(c)
    BY Zenon DEF IInv, Shape
  <1>1. Shape'
    BY Zenon DEF IInv, Shape
  <1>2. /\ peer'[c] = p /\ wire'[c] = w /\ UNCHANGED <<client, applied>>
        /\ \A o \in Calls \ {c} : peer'[o] = peer[o] /\ wire'[o] = wire[o]
    BY Zenon DEF IInv, Shape
  <1>3. Flow(c)' /\ Answer(c)'
    BY <1>0, <1>2, Zenon DEF Flow, Answer, Framed
  <1> QED BY <1>1, <1>2, <1>3, OneCall, Zenon

LEMMA DropStep == ASSUME IInv, NEW c \in Calls, Drop(c), UNCHANGED <<client, applied>> PROVE IInv'
  <1>0. wire[c] \in Wire /\ peer[c] \in Peer
    BY Zenon DEF IInv, Shape
  <1>1. /\ peer' = [peer EXCEPT ![c] = [peer[c] EXCEPT !.here = FALSE]]
        /\ wire' = [wire EXCEPT ![c] = [wire[c] EXCEPT !.cut = TRUE]]
    BY Zenon DEF Drop, IInv, Shape
  <1> QED BY <1>0, <1>1, PeerStep, Zenon DEF Peer, Wire

\* serve_rpc: the request is dispatched with its last piece, once.
LEMMA ReadStep == ASSUME IInv, NEW c \in Calls, PeerRead(c) PROVE IInv'
  <1>0. client[c] \in Client /\ wire[c] \in Wire /\ peer[c] \in Peer /\ applied[c] \in Nat /\ Flow(c) /\ Answer(c)
    BY Zenon DEF IInv, Shape
  <1>1. /\ peer[c].out = "none" /\ wire[c].to > 0
        /\ wire' = [wire EXCEPT ![c] = [wire[c] EXCEPT !.to = wire[c].to - 1]]
        /\ UNCHANGED client
    BY Zenon DEF PeerRead, IInv, Shape
  <1> DEFINE w == [wire[c] EXCEPT !.to = wire[c].to - 1]
  <1>2. w \in Wire /\ w.to = wire[c].to - 1
    BY <1>0, <1>1 DEF Wire
  <1>3. CASE ~Whole(peer[c].in + 1)
    <2>1. peer' = [peer EXCEPT ![c] = [peer[c] EXCEPT !.in = peer[c].in + 1]] /\ UNCHANGED applied
      BY <1>3, Zenon DEF PeerRead, IInv, Shape
    <2>2. /\ [peer[c] EXCEPT !.in = peer[c].in + 1] \in Peer
          /\ [peer[c] EXCEPT !.in = peer[c].in + 1].in + w.to = peer[c].in + wire[c].to
          /\ [peer[c] EXCEPT !.in = peer[c].in + 1].out = peer[c].out
      BY <1>0, <1>2 DEF Peer, Wire
    <2> HIDE DEF w
    <2> QED BY <1>1, <1>2, <2>1, <2>2, PeerStep, Zenon DEF w
  <1>4. CASE Whole(peer[c].in + 1)
    <2>1. PICK out \in {"ok", "error"} :
              /\ peer' = [peer EXCEPT ![c].in = @ + 1, ![c].out = out]
              /\ applied' \in {[applied EXCEPT ![c] = @ + n] : n \in IF out = "ok" THEN {1} ELSE {0, 1}}
      BY <1>4, Zenon DEF PeerRead
    <2>2. PICK n \in IF out = "ok" THEN {1} ELSE {0, 1} : applied' = [applied EXCEPT ![c] = @ + n]
      BY <2>1, Zenon
    <2>3. applied[c] = 0 /\ applied'[c] = n /\ n \in {0, 1} /\ (out = "ok" => n = 1)
      BY <1>0, <1>1, <2>1, <2>2 DEF Answer, IInv, Shape
    <2>4. /\ peer'[c] = [peer[c] EXCEPT !.in = peer[c].in + 1, !.out = out]
          /\ wire'[c] = w
          /\ \A o \in Calls \ {c} : peer'[o] = peer[o] /\ wire'[o] = wire[o] /\ applied'[o] = applied[o]
      BY <1>1, <2>1, <2>2, Zenon DEF IInv, Shape
    <2>5. peer'[c] \in Peer /\ peer'[c].in = peer[c].in + 1 /\ peer'[c].out = out
      <3>1. PICK k \in Nat : k = peer[c].in + 1
        BY <1>0 DEF Peer
      <3>2. peer'[c] = [peer[c] EXCEPT !.in = k, !.out = out]
        BY <2>4, <3>1, Zenon
      <3>3. /\ [peer[c] EXCEPT !.in = k, !.out = out] \in Peer
            /\ [peer[c] EXCEPT !.in = k, !.out = out].in = k
            /\ [peer[c] EXCEPT !.in = k, !.out = out].out = out
        BY <1>0, Zenon DEF Peer
      <3> QED BY <3>1, <3>2, <3>3, Zenon
    <2>6. Shape'
      <3>1. peer' \in [Calls -> Peer]
        BY <2>1, <2>4, <2>5, Zenon DEF IInv, Shape
      <3>2. wire' \in [Calls -> Wire] /\ client' \in [Calls -> Client]
        BY <1>1, <1>2, Zenon DEF IInv, Shape
      <3>3. applied' \in [Calls -> Nat]
        BY <2>2, <2>3 DEF IInv, Shape
      <3> QED BY <3>1, <3>2, <3>3, Zenon DEF Shape
    <2>7. /\ peer[c].in \in Nat /\ wire[c].to \in Nat /\ client[c].sent \in Nat /\ client'[c] = client[c]
          /\ peer[c].in + wire[c].to = client[c].sent /\ wire'[c].to = wire[c].to - 1
          /\ Framed => client[c].sent <= Pieces
          /\ Pieces = peer[c].in + 1
      BY <1>0, <1>1, <1>2, <1>4, <2>4, Zenon DEF Client, Peer, Wire, Flow, Whole
    <2>8. Framed /\ client[c].sent = Pieces
      BY <1>1, <2>7 DEF Framed
    <2>9. Flow(c)'
      BY <1>0, <2>5, <2>7, <2>8 DEF Flow, Framed
    <2>10. Answer(c)'
      <3>1. peer'[c].out # "none" /\ (peer'[c].out = "ok" => applied'[c] = 1) /\ applied'[c] <= 1
        BY <2>1, <2>3, <2>5
      <3>2. Framed' /\ client'[c].sent = Pieces
        BY <2>7, <2>8, Zenon DEF Framed
      <3>3. client'[c].result # "ok"
        BY <1>0, <2>3, <2>7 DEF Answer
      <3> QED BY <3>1, <3>2, <3>3, Zenon DEF Answer
    <2> QED BY <1>1, <2>4, <2>6, <2>9, <2>10, OneCall, Zenon
  <1> QED BY <1>3, <1>4, Zenon

LEMMA ServeStep ==
    ASSUME IInv, NEW c \in Calls,
           Accept(c) \/ PeerRead(c) \/ PeerEnd(c) \/ PeerWrite(c) \/ PeerLate(c) \/ Expire(c)
    PROVE  IInv'
  <1>0. wire[c] \in Wire /\ peer[c] \in Peer
    BY Zenon DEF IInv, Shape
  <1>a. wire = [wire EXCEPT ![c] = wire[c]] /\ peer = [peer EXCEPT ![c] = peer[c]]
    BY Zenon DEF IInv, Shape
  <1>1. CASE Accept(c)
    <2>1. CASE Cardinality(Peers) < MaxPeers
      <3>1. /\ peer' = [peer EXCEPT ![c] = [peer[c] EXCEPT !.here = TRUE]]
            /\ wire' = [wire EXCEPT ![c] = [wire[c] EXCEPT !.backlog = FALSE]]
            /\ UNCHANGED <<client, applied>>
        BY <1>1, <2>1, Zenon DEF Accept, IInv, Shape
      <3> QED BY <1>0, <3>1, PeerStep, Zenon DEF Peer, Wire
    <2>2. CASE ~(Cardinality(Peers) < MaxPeers)
      <3>1. /\ peer' = [peer EXCEPT ![c] = peer[c]]
            /\ wire' = [wire EXCEPT ![c] = [wire[c] EXCEPT !.backlog = FALSE, !.cut = TRUE]]
            /\ UNCHANGED <<client, applied>>
        BY <1>a, <1>0, <1>1, <2>2, Zenon DEF Accept, IInv, Shape, Wire
      <3> QED BY <1>0, <3>1, PeerStep, ZenonT(20) DEF Peer, Wire
    <2> QED BY <2>1, <2>2, Zenon
  <1>2. CASE PeerRead(c)
    BY <1>2, ReadStep, Zenon
  <1>3. CASE PeerEnd(c)
    <2>1. /\ peer' = [peer EXCEPT ![c] = [peer[c] EXCEPT !.out = "error"]]
          /\ wire' = [wire EXCEPT ![c] = wire[c]]
          /\ UNCHANGED <<client, applied>> /\ peer[c].out = "none"
      BY <1>a, <1>3, Zenon DEF PeerEnd
    <2> QED BY <1>0, <2>1, PeerStep, ZenonT(20) DEF Peer, Wire
  <1>4. CASE PeerWrite(c)
    <2>1. CASE wire[c].hup
      BY <1>4, <2>1, DropStep, Zenon DEF PeerWrite
    <2>2. CASE ~wire[c].hup
      <3> DEFINE p == [peer[c] EXCEPT !.sent = peer[c].sent + 1, !.here = peer[c].sent + 1 # Pieces]
                 w == [wire[c] EXCEPT !.from = wire[c].from + 1, !.cut = peer[c].sent + 1 = Pieces]
      <3>1. /\ peer' = [peer EXCEPT ![c].sent = @ + 1, ![c].here = peer[c].sent + 1 # Pieces]
            /\ wire' = [wire EXCEPT ![c].from = @ + 1, ![c].cut = peer[c].sent + 1 = Pieces]
            /\ UNCHANGED <<client, applied>>
        BY <1>4, <2>2, Zenon DEF PeerWrite
      <3>2. peer' = [peer EXCEPT ![c] = p]
        BY <1>0, <3>1, Zenon DEF IInv, Shape, Peer
      <3>3. wire' = [wire EXCEPT ![c] = w]
        BY <1>0, <3>1, Zenon DEF IInv, Shape, Wire
      <3>4. p \in Peer /\ p.in = peer[c].in /\ p.out = peer[c].out
        <4>1. PICK n \in Nat : n = peer[c].sent + 1
          BY <1>0 DEF Peer
        <4>2. PICK b \in BOOLEAN : b = (peer[c].sent + 1 # Pieces)
          BY Zenon
        <4>3. p = [peer[c] EXCEPT !.sent = n, !.here = b]
          BY <4>1, <4>2, Zenon
        <4> HIDE DEF p
        <4> QED BY <1>0, <4>3, WrotePiece, ZenonT(20)
      <3>5. w \in Wire /\ w.to = wire[c].to
        <4>1. PICK n \in Nat : n = wire[c].from + 1
          BY <1>0 DEF Wire
        <4>2. PICK b \in BOOLEAN : b = (peer[c].sent + 1 = Pieces)
          BY Zenon
        <4>3. w = [wire[c] EXCEPT !.from = n, !.cut = b]
          BY <4>1, <4>2, Zenon
        <4> HIDE DEF w
        <4> QED BY <1>0, <4>3, WireFilled, Zenon
      <3> HIDE DEF p, w
      <3>6. p.in + w.to = peer[c].in + wire[c].to
        BY <3>4, <3>5, Zenon
      <3>7. UNCHANGED <<client, applied>>
        BY <3>1, Zenon
      <3> QED BY <3>7, <3>2, <3>3, <3>4, <3>5, <3>6, PeerStep, Zenon
    <2> QED BY <2>1, <2>2, Zenon
  <1>5. CASE PeerLate(c)
    <2>1. /\ peer' = [peer EXCEPT ![c] = [peer[c] EXCEPT !.late = TRUE]]
          /\ wire' = [wire EXCEPT ![c] = wire[c]]
          /\ UNCHANGED <<client, applied>>
      BY <1>a, <1>5, Zenon DEF PeerLate
    <2> QED BY <1>0, <2>1, PeerStep, ZenonT(20) DEF Peer, Wire
  <1>6. CASE Expire(c)
    BY <1>6, DropStep, Zenon DEF Expire
  <1> QED BY <1>1, <1>2, <1>3, <1>4, <1>5, <1>6, Zenon

LEMMA NextIInv == IInv /\ [Next]_vars => IInv'
  <1> SUFFICES ASSUME IInv, [Next]_vars PROVE IInv'
    BY Zenon
  <1>1. ASSUME NEW c \in Calls, Connect(c) \/ Send(c) \/ Recv(c) \/ ClientLate(c) PROVE IInv'
    BY <1>1, ClientStep, Zenon
  <1>2. ASSUME NEW c \in Calls,
               Accept(c) \/ PeerRead(c) \/ PeerEnd(c) \/ PeerWrite(c) \/ PeerLate(c) \/ Expire(c)
        PROVE  IInv'
    BY <1>2, ServeStep, Zenon
  <1>3. CASE Stop
    <2>1. \A c \in Calls : wire[c] \in Wire /\ peer[c] \in Peer
      BY Zenon DEF IInv, Shape
    <2>2. \A c \in Calls : /\ peer'[c] \in Peer /\ peer'[c].in = peer[c].in /\ peer'[c].out = peer[c].out
                           /\ wire'[c] \in Wire /\ wire'[c].to = wire[c].to
      <3> SUFFICES ASSUME NEW c \in Calls
                   PROVE  /\ peer'[c] \in Peer /\ peer'[c].in = peer[c].in /\ peer'[c].out = peer[c].out
                          /\ wire'[c] \in Wire /\ wire'[c].to = wire[c].to
        BY Zenon
      <3>1. peer'[c] = [peer[c] EXCEPT !.here = FALSE]
        BY <1>3, Zenon DEF Stop
      <3>2. PICK b \in BOOLEAN : wire'[c] = [wire[c] EXCEPT !.backlog = FALSE, !.cut = b]
        <4>1. wire'[c] = [wire[c] EXCEPT !.backlog = FALSE,
                                         !.cut = wire[c].cut \/ wire[c].backlog \/ peer[c].here]
          BY <1>3, Zenon DEF Stop
        <4> QED BY <4>1, Zenon
      <3>3. peer'[c] \in Peer /\ peer'[c].in = peer[c].in /\ peer'[c].out = peer[c].out
        BY <2>1, <3>1, Zenon DEF Peer
      <3>4. wire'[c] \in Wire /\ wire'[c].to = wire[c].to
        BY <2>1, <3>2, Zenon DEF Wire
      <3> QED BY <3>3, <3>4, Zenon
    <2>3. Shape' /\ UNCHANGED <<client, applied>>
      BY <1>3, <2>2, Zenon DEF Stop, IInv, Shape
    <2> QED BY <2>2, <2>3, Zenon DEF IInv, Flow, Answer, Framed
  <1>4. CASE UNCHANGED vars
    BY <1>4, Zenon DEF vars, IInv, Shape, Flow, Answer, Framed
  <1> QED BY <1>1, <1>2, <1>3, <1>4, Zenon DEF Next

\* request_rpc and serve_rpc, for any calls, limits and frame lengths: a call
\* takes effect at most once, only when all of its request arrived, and success
\* is reported only for a call that was committed.
THEOREM AlwaysTruthful == Spec => []Truthful
  <1>1. IInv => Truthful
    BY Zenon DEF IInv, Answer, Truthful
  <1> QED BY <1>1, InitIInv, NextIInv, PTL DEF Spec
=============================================================================
