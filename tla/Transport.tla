----------------------------- MODULE Transport -----------------------------
(***************************************************************************)
(* One request and one reply over a local connection: request_rpc of       *)
(* rpc_client.cpp and the peers of serve_rpc in rpc.cpp.  A frame is a     *)
(* header and a body and may arrive in pieces.  Each side has a deadline   *)
(* of its own; either may be gone when the other reads or writes.  A call  *)
(* is never sent again by the client.                                      *)
(***************************************************************************)
EXTENDS Naturals, FiniteSets

CONSTANTS
    Calls,      \* calls of request_rpc, each with a connection of its own
    Pieces,     \* pieces of a frame
    MaxPeers    \* 16 connections

VARIABLES
    client,    \* what each call does: pc, pieces sent and received, its result
    wire,      \* each connection: pieces on their way, and the ends that are closed
    peer,      \* the server's Peer of each connection
    applied,   \* how often each call was dispatched and committed
    server     \* "up", or "down" after a signal

vars == <<client, wire, peer, applied, server>>

NoPeer == [here |-> FALSE, in |-> 0, out |-> "none", sent |-> 0, late |-> FALSE]
Peers == {c \in Calls : peer[c].here}

Init ==
    /\ client = [c \in Calls |-> [pc |-> "idle", sent |-> 0, got |-> 0, result |-> "none"]]
    /\ wire = [c \in Calls |-> [to |-> 0, from |-> 0, backlog |-> FALSE, cut |-> FALSE, hup |-> FALSE]]
    /\ peer = [c \in Calls |-> NoPeer]
    /\ applied = [c \in Calls |-> 0]
    /\ server = "up"

-----------------------------------------------------------------------------
(* request_rpc                                                              *)

\* The call is over and its socket is closed.
Over(c, result) ==
    /\ client' = [client EXCEPT ![c].pc = "over", ![c].result = result]
    /\ wire' = [wire EXCEPT ![c].hup = TRUE]
    /\ UNCHANGED <<peer, applied, server>>

Connect(c) ==
    /\ client[c].pc = "idle"
    /\ IF server = "up"
       THEN /\ client' = [client EXCEPT ![c].pc = "send"]
            /\ wire' = [wire EXCEPT ![c].backlog = TRUE]
            /\ UNCHANGED <<peer, applied, server>>
       ELSE Over(c, "unknown")

\* A piece goes out; on a connection that the server closed the call fails.
Send(c) ==
    /\ client[c].pc = "send"
    /\ IF wire[c].cut THEN Over(c, "unknown")
       ELSE /\ client' = [client EXCEPT ![c].sent = @ + 1, ![c].pc = IF client[c].sent + 1 = Pieces THEN "recv" ELSE "send"]
            /\ wire' = [wire EXCEPT ![c].to = @ + 1]
            /\ UNCHANGED <<peer, applied, server>>

\* A piece of the reply arrives, or the end of the connection does.
Recv(c) ==
    /\ client[c].pc = "recv"
    /\ IF wire[c].from > 0
       THEN IF client[c].got + 1 = Pieces
            THEN Over(c, peer[c].out)
            ELSE /\ client' = [client EXCEPT ![c].got = @ + 1]
                 /\ wire' = [wire EXCEPT ![c].from = @ - 1]
                 /\ UNCHANGED <<peer, applied, server>>
       ELSE wire[c].cut /\ Over(c, "unknown")

\* The ten seconds of the call are over; wait_fd throws.
ClientLate(c) ==
    /\ client[c].pc \in {"send", "recv"}
    /\ Over(c, "unknown")

-----------------------------------------------------------------------------
(* serve_rpc: one iteration of the loop is one of these steps               *)

\* A connection is taken from the backlog and refused when there are too many.
Accept(c) ==
    /\ server = "up" /\ wire[c].backlog
    /\ IF Cardinality(Peers) < MaxPeers
       THEN /\ peer' = [peer EXCEPT ![c].here = TRUE]
            /\ wire' = [wire EXCEPT ![c].backlog = FALSE]
       ELSE /\ wire' = [wire EXCEPT ![c].backlog = FALSE, ![c].cut = TRUE]
            /\ UNCHANGED peer
    /\ UNCHANGED <<client, applied, server>>

\* A plausible slip: the request is dispatched when its header has arrived.
WholeHeader(in) == in >= 1
\* A request is decoded and dispatched once all of it is there.
Whole(in) == in = Pieces

\* recv of a piece; with the last one the request is dispatched and answered. An error may be a refusal or a
\* batch whose write failed, which a reopened store may still show.
PeerRead(c) ==
    /\ server = "up" /\ peer[c].here /\ ~peer[c].late /\ peer[c].out = "none" /\ wire[c].to > 0
    /\ wire' = [wire EXCEPT ![c].to = @ - 1]
    /\ IF Whole(peer[c].in + 1)
       THEN \E out \in {"ok", "error"} :
                /\ peer' = [peer EXCEPT ![c].in = @ + 1, ![c].out = out]
                /\ applied' \in {[applied EXCEPT ![c] = @ + n] : n \in IF out = "ok" THEN {1} ELSE {0, 1}}
       ELSE peer' = [peer EXCEPT ![c].in = @ + 1] /\ UNCHANGED applied
    /\ UNCHANGED <<client, server>>

\* The client is gone before its request was whole: "truncated RPC request".
PeerEnd(c) ==
    /\ server = "up" /\ peer[c].here /\ ~peer[c].late /\ peer[c].out = "none" /\ wire[c].to = 0 /\ wire[c].hup
    /\ peer' = [peer EXCEPT ![c].out = "error"]
    /\ UNCHANGED <<client, wire, applied, server>>

Drop(c) ==
    /\ peer' = [peer EXCEPT ![c].here = FALSE]
    /\ wire' = [wire EXCEPT ![c].cut = TRUE]

\* send of a piece of the reply; the connection is closed after the last one or on an error.
PeerWrite(c) ==
    /\ server = "up" /\ peer[c].here /\ ~peer[c].late /\ peer[c].out # "none"
    /\ IF wire[c].hup THEN Drop(c)
       ELSE /\ peer' = [peer EXCEPT ![c].sent = @ + 1, ![c].here = peer[c].sent + 1 # Pieces]
            /\ wire' = [wire EXCEPT ![c].from = @ + 1, ![c].cut = peer[c].sent + 1 = Pieces]
    /\ UNCHANGED <<client, applied, server>>

\* The five seconds of the connection pass.
PeerLate(c) ==
    /\ peer[c].here /\ ~peer[c].late
    /\ peer' = [peer EXCEPT ![c].late = TRUE]
    /\ UNCHANGED <<client, wire, applied, server>>

\* A plausible slip: a connection is only timed out while its request is incomplete.
MayExpireReading(c) == peer[c].late /\ peer[c].out = "none"
\* The deadline covers reading and writing.
MayExpire(c) == peer[c].late
Expire(c) ==
    /\ server = "up" /\ peer[c].here /\ MayExpire(c)
    /\ Drop(c)
    /\ UNCHANGED <<client, applied, server>>

\* A signal ends the loop, or the process dies; every connection closes.
Stop ==
    /\ server = "up"
    /\ server' = "down"
    /\ peer' = [c \in Calls |-> [peer[c] EXCEPT !.here = FALSE]]
    /\ wire' = [c \in Calls |-> [wire[c] EXCEPT !.backlog = FALSE,
                                                !.cut = @ \/ wire[c].backlog \/ peer[c].here]]
    /\ UNCHANGED <<client, applied>>

Next ==
    \/ \E c \in Calls : Connect(c) \/ Send(c) \/ Recv(c) \/ ClientLate(c)
    \/ \E c \in Calls : Accept(c) \/ PeerRead(c) \/ PeerEnd(c) \/ PeerWrite(c) \/ PeerLate(c) \/ Expire(c)
    \/ Stop

Spec == Init /\ [][Next]_vars

-----------------------------------------------------------------------------
(* What a caller may rely on                                                *)

\* request_rpc, serve_rpc: a call takes effect at most once, and only when all of its request arrived; success is
\* reported only for a call that was committed. Pieces, deadlines, closed connections and a stopped server leave
\* the caller at worst without an answer.
Truthful ==
    \A c \in Calls :
        /\ applied[c] <= 1
        /\ applied[c] = 1 => client[c].sent = Pieces
        /\ client[c].result = "ok" => applied[c] = 1

Connected(c) == peer[c].here
=============================================================================
