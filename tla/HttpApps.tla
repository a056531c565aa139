------------------------------ MODULE HttpApps ------------------------------
(***************************************************************************)
(* quiche-client and quiche-server (tools/apps): one process each, a       *)
(* single-threaded event loop over one UDP socket, HTTP/0.9 or HTTP/3 on   *)
(* top of the connection.                                                  *)
(*                                                                         *)
(* The transport is external, and modelled by what it does for them.  A    *)
(* packet tells the peer all there is to tell (requests, data, credit) and *)
(* is sent again while that has not arrived; recv() answers Done to one it *)
(* has seen already.  Requests are numbered; a request has three parts:    *)
(* its first four bytes, the middle, and its end with the fin.  A response *)
(* stream is a sequence of units: the units of the file, 1 .. Body[r], and *)
(* 0 for what HTTP/3 puts between them.                                    *)
(*                                                                         *)
(* The socket is registered edge-triggered: poll() reports it once after   *)
(* something arrived, whatever is left unread in it.                       *)
(***************************************************************************)
EXTENDS Integers, Sequences, FiniteSets, SequencesExt, FiniteSetsExt

CONSTANTS
    Body,         \* the units in the file each request is for
    Window,       \* units of stream credit the client grants
    MaxStreams,   \* initial_max_streams_bidi of the server
    Cuts,         \* parts of a request that may travel in a packet of their own
    InboxLen,     \* the receive buffer of a socket
    MaxFaults, MaxAccepts   \* bounds: of losses, repetitions and rebindings; of connections accepted

ASSUME HttpAppsConstants ==
    /\ \A r \in DOMAIN Body : Body[r] \in Nat
    /\ Window \in Nat /\ Window > 1
    /\ MaxStreams \in Nat \ {0} /\ InboxLen \in Nat \ {0}
    /\ Cuts \subseteq {1, 2}

VARIABLES
    h3, no_retry,   \* the protocol; the server's --no-retry
    client,         \* of quiche-client: its connection and its HttpConn
    clients,        \* of quiche-server: ClientMap
    net, inbox, edge, pc,   \* packets on their way, in a socket; its readiness; where a loop is
    accepted, faults,
    spoiled         \* history: requests whose response the programs below lose (see Spoils)

vars == <<h3, no_retry, client, clients, net, inbox, edge, pc, accepted, faults, spoiled>>

Reqs == DOMAIN Body
Sides == {"client", "server"}
RequestLen == 3
None == -1
NoPacket == [ty |-> "none"]

\* Connection IDs: 0 is the client's first choice; ring::hmac::sign of an ID
Hmac(cid) == cid + 1
NoToken == [addr |-> None, odcid |-> None]
MintToken(d) == [addr |-> d.src, odcid |-> d.dcid]
ValidateToken(src, token) == token.addr = src

NewClient ==
    [phase |-> "start", addr |-> 0, dcid |-> 0, token |-> NoToken, serial |-> 0, limit |-> MaxStreams,
     sent |-> 0, complete |-> 0, finished |-> {}, arrived |-> [r \in Reqs |-> <<>>], fin |-> {},
     taken |-> [r \in Reqs |-> 0], body |-> [r \in Reqs |-> <<>>], last |-> NoPacket]

\* Client: its connection, its partial responses, and a request's stream
NewStream == [req |-> 0, read |-> 0, credit |-> Window, out |-> <<>>, fin |-> FALSE, partial |-> None, canceled |-> FALSE]
NewConn(peer, serial) ==
    [peer |-> peer, serial |-> serial, est |-> FALSE, closed |-> FALSE, streams |-> [r \in Reqs |-> NewStream], last |-> NoPacket]

-----------------------------------------------------------------------------
(* The server's HttpConn, on the stream x of request r *)

Cap(x) == x.credit - Len(x.out)
Rest(r, written) == [i \in 1..(Body[r] - written) |-> written + i]

\* What is left of the response is kept while there is any
Kept(x, r, written) == [x EXCEPT !.partial = IF written < Body[r] THEN written ELSE None]
Wrote(x, r, header, written, n) ==
    [x EXCEPT !.out = @ \o header \o SubSeq(Rest(r, written), 1, n), !.fin = @ \/ written + n = Body[r]]

\* Fault: all is taken to be written
Write09_All(x, r, written) == Kept(Wrote(x, r, <<>>, written, Min({Body[r] - written, Cap(x)})), r, Body[r])

\* stream_send: as much as the window takes, and the fin with the last of it
Write09(x, r, written) ==
    LET n == Min({Body[r] - written, Cap(x)}) IN Kept(Wrote(x, r, <<>>, written, n), r, written + n)

\* send_body: a DATA frame, unless the window takes no more than its header
Write3(x, r, written) ==
    LET n == Min({Body[r] - written, Cap(x) - 1}) IN
    IF Cap(x) <= 1 THEN Kept(x, r, written) ELSE Kept(Wrote(x, r, <<0>>, written, n), r, written + n)

Writable(x) == ~x.canceled /\ Cap(x) > 0 /\ x.partial # None
HandleWritable09(x, r) == IF Writable(x) THEN Write09(x, r, x.partial) ELSE x
HandleWritable3(x, r) == IF Writable(x) THEN Write3(x, r, x.partial) ELSE x

\* A request is what the first read brings, if that begins with "GET "
HandleRequests09(x, r) ==
    LET y == [x EXCEPT !.read = x.req] IN IF x.read = 0 /\ x.req >= 2 THEN Write09(y, r, 0) ELSE y

\* poll() has its headers together; what follows them is not read
HandleRequests3(x, r) ==
    IF x.read < RequestLen /\ x.req = RequestLen
    THEN Write3([x EXCEPT !.read = RequestLen, !.out = @ \o <<0>>], r, 0) ELSE x

\* Two ways to lose a response: a request that comes in two pieces, over
\* HTTP/0.9; an empty body the window has no room for (a third is Expire)
Spoils(x, y) ==
    {r \in Reqs : LET s == y.streams[r] IN
        \/ ~h3 /\ x.streams[r].read = 0 /\ s.read \in 1..(RequestLen - 1)
        \/ h3 /\ Body[r] = 0 /\ s.read = RequestLen /\ ~s.fin}

-----------------------------------------------------------------------------
(* quiche-server *)

Sent(side, packets) == [net EXCEPT ![side] = @ \o packets]

\* The timeouts are longer than a packet's way, there and back, and a turn of the loops
Quiet == \A s \in Sides : net[s] = <<>> /\ ~edge[s] /\ pc[s] \in {"poll", "ended"}

\* What a connection has to tell its peer
Told(x) ==
    LET Fin(r) == x.streams[r].fin
        complete == {r \in Reqs : Fin(r) /\ x.streams[r].read = RequestLen /\ r \in client.fin} IN
    [ty |-> IF x.est THEN "data" ELSE "handshake", addr |-> x.peer, serial |-> x.serial, dup |-> FALSE,
     out |-> [r \in Reqs |-> x.streams[r].out], fin |-> {r \in Reqs : Fin(r)}, limit |-> MaxStreams + Cardinality(complete)]

Hears(x) == x.peer = client.addr /\ client.serial = x.serial /\ client.phase = "established"
Arrived(x) ==
    /\ Hears(x) /\ x.est
    /\ LET t == Told(x) IN client.arrived = t.out /\ client.fin = t.fin /\ client.limit = t.limit

Poll(side) ==
    /\ pc[side] = "poll" /\ edge[side]
    /\ edge' = [edge EXCEPT ![side] = FALSE] /\ pc' = [pc EXCEPT ![side] = "read"]
    /\ UNCHANGED <<h3, no_retry, client, clients, net, inbox, accepted, faults, spoiled>>

\* poll() with the shortest of the timeouts; when it has passed, on_timeout().
\* A connection that hears no more of its client times out
ServerTimeout ==
    /\ pc["server"] = "poll" /\ Quiet
    /\ \E k \in DOMAIN clients :
         LET x == clients[k] gone == client.phase = "closed" \/ client.serial \notin {0, x.serial} IN
         /\ gone \/ (~Arrived(x) /\ client.phase # "closing")
         /\ clients' = [clients EXCEPT ![k] = [@ EXCEPT !.closed = gone, !.last = NoPacket]]
    /\ pc' = [pc EXCEPT !["server"] = "send"]
    /\ UNCHANGED <<h3, no_retry, client, net, inbox, edge, accepted, faults, spoiled>>

\* recv() takes the packet: Done for one it has seen, or whose keys it has not
Received(x, d) ==
    LET Heard(s, r) == [s EXCEPT !.req = Max({@, d.req[r]}), !.credit = Max({@, d.credit[r]})] IN
    CASE d.ty = "close" -> [x EXCEPT !.closed = TRUE]
      [] d.ty = "data" -> [x EXCEPT !.est = TRUE, !.streams = [r \in Reqs |-> Heard(@[r], r)]]
      [] OTHER -> x
IsDone(x, d, isNew) == d.dup \/ (d.ty = "Initial" /\ ~isNew /\ ~no_retry /\ d.token = NoToken)

Served(x) ==
    IF ~x.est \/ x.closed THEN x
    ELSE [x EXCEPT !.streams = [r \in Reqs |->
             IF h3 THEN HandleRequests3(HandleWritable3(@[r], r), r) ELSE HandleRequests09(HandleWritable09(@[r], r), r)]]

\* The connection a packet is for: by the ID in it, or by the one derived from it
\* (fault: by the ID in it only)
Lookup_Direct(d) == {d.dcid} \cap DOMAIN clients
Lookup(d) == IF d.dcid \in DOMAIN clients THEN {d.dcid} ELSE {Hmac(d.dcid)} \cap DOMAIN clients

\* The ID to open a connection under, where the packet may
Scids(d) ==
    CASE d.ty # "Initial" -> {}
      [] d.ty = "Initial" /\ no_retry -> {Hmac(d.dcid)}
      [] OTHER -> IF d.token # NoToken /\ ValidateToken(d.src, d.token) THEN {d.dcid} ELSE {}
Retries(d) == d.ty = "Initial" /\ ~no_retry /\ d.token = NoToken

Process(k, x, d, isNew) ==
    LET y == Served(Received(x, d)) done == IsDone(x, d, isNew) IN
    /\ clients' = [i \in DOMAIN clients \cup {k} |-> IF i # k THEN clients[i] ELSE IF done THEN x ELSE y]
    /\ pc' = [pc EXCEPT !["server"] = IF done THEN "send" ELSE "read"]
    /\ spoiled' = spoiled \cup (IF done THEN {} ELSE Spoils(x, y))

\* One turn of the loop that reads; an error, Done too, leaves the rest unread
ServerRead ==
    /\ pc["server"] = "read" /\ inbox["server"] # <<>>
    /\ LET d == Head(inbox["server"]) found == Lookup(d) IN
       /\ inbox' = [inbox EXCEPT !["server"] = Tail(@)]
       /\ IF found # {} THEN
            /\ \A k \in found : Process(k, clients[k], d, FALSE)
            /\ UNCHANGED <<net, accepted>>
          ELSE IF Scids(d) # {} /\ accepted < MaxAccepts THEN
            /\ \A k \in Scids(d) : Process(k, NewConn(d.src, accepted + 1), d, TRUE)
            /\ accepted' = accepted + 1 /\ UNCHANGED net
          ELSE
            /\ net' = IF Retries(d) THEN Sent("client", <<[ty |-> "Retry", addr |-> d.src, scid |-> Hmac(d.dcid),
                                                            token |-> MintToken(d), dup |-> FALSE]>>)
                      ELSE net
            /\ UNCHANGED <<clients, pc, spoiled, accepted>>
    /\ UNCHANGED <<h3, no_retry, client, edge, faults>>

ReadWouldBlock ==
    \E s \in Sides :
        /\ pc[s] = "read" /\ inbox[s] = <<>>
        /\ pc' = [pc EXCEPT ![s] = "send"]
        /\ UNCHANGED <<h3, no_retry, client, clients, net, inbox, edge, accepted, faults, spoiled>>

\* send() until Done on every connection; then the closed ones are collected
ServerSend ==
    /\ pc["server"] = "send"
    /\ LET live == {k \in DOMAIN clients : ~clients[k].closed}
           due == SetToSeq({k \in live : clients[k].last # Told(clients[k])}) IN
       /\ net' = Sent("client", [i \in DOMAIN due |-> Told(clients[due[i]])])
       /\ clients' = [k \in live |-> [clients[k] EXCEPT !.last = Told(clients[k])]]
    /\ pc' = [pc EXCEPT !["server"] = "poll"]
    /\ UNCHANGED <<h3, no_retry, client, inbox, edge, accepted, faults, spoiled>>

-----------------------------------------------------------------------------
(* quiche-client *)

\* With stream credit left, the next requests
SendRequests(k) == [k EXCEPT !.sent = Max({@, Min({Len(Body), k.limit})})]

New(k, r) == SubSeq(k.arrived[r], k.taken[r] + 1, Len(k.arrived[r]))
Taken(k, Units(_)) ==
    [k EXCEPT !.body = [r \in Reqs |-> @[r] \o Units(New(k, r))], !.taken = [r \in Reqs |-> Len(k.arrived[r])],
              !.finished = k.fin, !.complete = @ + Cardinality(k.fin \ k.finished)]
Closes(k) == IF k.complete = Len(Body) THEN [k EXCEPT !.phase = "closing"] ELSE k

HandleResponses09(k) == Closes(Taken(k, LAMBDA units : units))
HandleResponses3(k) == Closes(Taken(k, LAMBDA units : SelectSeq(units, LAMBDA u : u # 0)))

Initial == [ty |-> "Initial", src |-> client.addr, dcid |-> client.dcid, token |-> client.token, dup |-> FALSE]
Data(k, parts) ==
    [ty |-> "data", src |-> k.addr, dcid |-> k.dcid, dup |-> FALSE,
     req |-> [r \in Reqs |-> IF r <= k.sent THEN (IF r > client.sent THEN parts ELSE RequestLen) ELSE 0],
     credit |-> [r \in Reqs |-> Window + k.taken[r]]]
Close == [ty |-> "close", src |-> client.addr, dcid |-> client.dcid, dup |-> FALSE]

\* Has the server's connection all the client has told?
Known ==
    \E k \in DOMAIN clients :
        /\ clients[k].serial = client.serial /\ clients[k].est
        /\ \A r \in Reqs : LET s == clients[k].streams[r] IN s.req = client.last.req[r] /\ s.credit = client.last.credit[r]

ClientTimeout ==
    /\ pc["client"] = "poll" /\ Quiet
    /\ client.phase = "established" => ~Known
    /\ client' = [client EXCEPT !.last = NoPacket]
    /\ pc' = [pc EXCEPT !["client"] = "send"]
    /\ UNCHANGED <<h3, no_retry, clients, net, inbox, edge, accepted, faults, spoiled>>

\* External: what the connection makes of a packet
ClientReceived(k, d) ==
    CASE d.ty = "Retry" /\ k.phase = "start" /\ k.token = NoToken -> [k EXCEPT !.dcid = d.scid, !.token = d.token]
      [] d.ty = "handshake" /\ k.phase = "start" -> [k EXCEPT !.phase = "established", !.dcid = 1, !.serial = d.serial]
      [] d.ty = "data" /\ k.phase = "established" /\ d.serial = k.serial ->
           [k EXCEPT !.arrived = [r \in Reqs |-> IF Len(d.out[r]) > Len(@[r]) THEN d.out[r] ELSE @[r]],
                     !.fin = @ \cup d.fin, !.limit = Max({@, d.limit})]
      [] OTHER -> k

ClientRead ==
    /\ pc["client"] = "read" /\ inbox["client"] # <<>>
    /\ LET d == Head(inbox["client"]) IN
       /\ inbox' = [inbox EXCEPT !["client"] = Tail(@)]
       /\ client' = IF d.dup THEN client ELSE ClientReceived(client, d)
       /\ pc' = [pc EXCEPT !["client"] = IF d.dup THEN "send" ELSE "read"]
    /\ UNCHANGED <<h3, no_retry, clients, net, edge, accepted, faults, spoiled>>

\* Requests, responses, send() until Done; a request may be cut between packets
ClientSend ==
    /\ pc["client"] = "send"
    /\ LET asked == SendRequests(client)
           k == IF client.phase # "established" THEN client
                ELSE IF h3 THEN HandleResponses3(asked) ELSE HandleResponses09(asked)
           Next(d) == [k EXCEPT !.last = d, !.phase = IF @ = "closing" THEN "closed" ELSE @]
       IN CASE client.phase = "start" ->
                 /\ net' = IF client.last = Initial THEN net ELSE Sent("server", <<Initial>>)
                 /\ client' = [client EXCEPT !.last = Initial]
            [] client.phase # "start" /\ k.phase = "closing" ->
                 net' = Sent("server", <<Close>>) /\ client' = Next(Close)
            [] OTHER ->
                 /\ \E cut \in {RequestLen} \cup (IF k.sent > client.sent THEN Cuts ELSE {}) :
                      net' = IF client.last = Data(k, RequestLen) THEN net
                             ELSE Sent("server", (IF cut < RequestLen THEN <<Data(k, cut)>> ELSE <<>>) \o <<Data(k, RequestLen)>>)
                 /\ client' = Next(Data(k, RequestLen))
    /\ pc' = [pc EXCEPT !["client"] = IF client'.phase = "closed" THEN "ended" ELSE "poll"]
    /\ UNCHANGED <<h3, no_retry, clients, inbox, edge, accepted, faults, spoiled>>

-----------------------------------------------------------------------------
(* The network, and deadlines *)

\* Packets for an address the client had go nowhere
Deliver(side) ==
    /\ net[side] # <<>> /\ Len(inbox[side]) < InboxLen
    /\ LET d == Head(net[side]) IN
       IF side = "client" /\ d.addr # client.addr THEN UNCHANGED <<inbox, edge>>
       ELSE inbox' = [inbox EXCEPT ![side] = Append(@, d)] /\ edge' = [edge EXCEPT ![side] = TRUE]
    /\ net' = [net EXCEPT ![side] = Tail(@)]
    /\ UNCHANGED <<h3, no_retry, client, clients, pc, accepted, faults, spoiled>>

\* A packet is lost, overtaken by the rest, or comes once more
Fault ==
    /\ faults < MaxFaults /\ faults' = faults + 1
    /\ \E s \in Sides : net[s] # <<>> /\ LET d == Head(net[s]) IN
         \E after \in {Tail(net[s]), Tail(net[s]) \o <<d>>, net[s] \o <<[d EXCEPT !.dup = TRUE]>>} :
            net' = [net EXCEPT ![s] = after]
    /\ UNCHANGED <<h3, no_retry, client, clients, inbox, edge, pc, accepted, spoiled>>

\* The client's address changes
Rebind ==
    /\ faults < MaxFaults /\ client.phase = "start"
    /\ faults' = faults + 1 /\ client' = [client EXCEPT !.addr = @ + 1]
    /\ UNCHANGED <<h3, no_retry, clients, net, inbox, edge, pc, accepted, spoiled>>

\* The default deadline of a response over HTTP/3 passes
Expire ==
    /\ h3
    /\ \E k \in DOMAIN clients, r \in Reqs :
         /\ clients[k].streams[r].partial # None /\ ~clients[k].streams[r].canceled
         /\ clients' = [clients EXCEPT ![k].streams[r].canceled = TRUE]
         /\ spoiled' = spoiled \cup {r}
    /\ UNCHANGED <<h3, no_retry, client, net, inbox, edge, pc, accepted, faults>>

-----------------------------------------------------------------------------
Init ==
    /\ h3 \in BOOLEAN /\ no_retry \in BOOLEAN
    /\ client = NewClient
    /\ clients = [k \in {} |-> NoPacket]
    /\ net = [s \in Sides |-> <<>>] /\ inbox = [s \in Sides |-> <<>>] /\ edge = [s \in Sides |-> FALSE]
    /\ pc = [s \in Sides |-> IF s = "client" THEN "send" ELSE "poll"]
    /\ accepted = 0 /\ faults = 0 /\ spoiled = {}

ServerStep == Poll("server") \/ ServerRead \/ ServerSend
ClientStep == Poll("client") \/ ClientRead \/ ClientSend

Next == \/ ServerStep \/ ServerTimeout \/ ClientStep \/ ClientTimeout \/ ReadWouldBlock
        \/ (\E s \in Sides : Deliver(s)) \/ Fault \/ Rebind \/ Expire
Spec == Init /\ [][Next]_vars

\* A timer that nothing acknowledged keeps its deadline, and so passes
FairSpec == /\ Spec /\ WF_vars(ServerStep) /\ WF_vars(ClientStep) /\ WF_vars(ReadWouldBlock)
            /\ SF_vars(ServerTimeout) /\ SF_vars(ClientTimeout) /\ \A s \in Sides : WF_vars(Deliver(s))

-----------------------------------------------------------------------------
(* Properties *)

\* The connection a client's handshake was made with is the one its packets
\* reach, as long as neither has ended: no late or repeated packet makes the
\* server put another in its place.
ConnectionKept ==
    client.phase = "established" =>
        \E k \in Lookup([dcid |-> client.dcid]) : clients[k].serial = client.serial

\* Every request is answered with the file, whole and in order, whatever the
\* windows and the event loops do to it; but for the three ways above to lose
\* a response, which keep the stream, and so the requests that wait for it,
\* and for an address that changed during the handshake (Rebind), since a
\* connection of the server keeps the one it was accepted from.  A request
\* counts once when it is finished: the client counts every Finished event, and
\* closes too early if poll() repeats one (EndRepeated of H3).
AllAnswered ==
    \A r \in Reqs :
        <>(\/ client.body[r] = Rest(r, 0) /\ r \in client.finished
           \/ \E q \in spoiled : q <= r
           \/ client.addr > 0)
=============================================================================
