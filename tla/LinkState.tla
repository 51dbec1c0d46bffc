----------------------------- MODULE LinkState -----------------------------
(***************************************************************************)
(* The SOSPF routers of LinkState_routing: Router.java (the terminal),     *)
(* Server.java (one handler thread per accepted connection),               *)
(* LinkStateDatabase.java and Client.java.                                 *)
(*                                                                         *)
(* A Link owns one connection, so links are named by their connection.     *)
(* Handler threads and the terminal interleave wherever one of them waits  *)
(* for a message or shares ports and statuses with another; a loop that    *)
(* only sends is one step with what precedes it, and so is the handler of  *)
(* LSAUPDATE.  An LSA that is received is a fresh copy.                    *)
(***************************************************************************)
EXTENDS Integers, Sequences, FiniteSets, SequencesExt

CONSTANTS
  Routers,
  MaxPorts,    \* 4 in the code
  Attaches,    \* pairs <<r, s>>: r is told to attach to s, once
  MaxStarts,   \* router -> bound on its start commands
  MaxOther     \* router -> bound on disconnect, detect, connect and quit

ASSUME LinkStateAssumption ==
  /\ MaxPorts \in Nat \ {0}
  /\ Attaches \subseteq (Routers \X Routers) /\ \A e \in Attaches : e[1] # e[2]
  /\ MaxStarts \in [Routers -> Nat] /\ MaxOther \in [Routers -> Nat]

VARIABLES
  ports,       \* router -> the sequence of its links
  conn,        \* the connections made so far
  status,      \* link -> status of the remote router in it
  lsd,         \* router -> its link state database
  term,        \* router -> its terminal thread
  todo         \* commands still to be typed

vars == <<ports, conn, status, lsd, term, todo>>

Links == DOMAIN conn
Peer(c) == conn[c].to

\* An LSA.  ver is the number the originator gave it; seq is what it is compared
\* by, Integer.MIN_VALUE counting as 0.
Lsa(r, seq, ver, links) == [id |-> r, seq |-> seq, ver |-> ver, links |-> links]
Msg(type, r) == [type |-> type, from |-> r, lsas |-> <<>>]

Idle == [pc |-> "idle", link |-> 0, k |-> 0, changed |-> FALSE, seen |-> {}]
Stopped(why) == [Idle EXCEPT !.pc = why]

\* The database with the router's own entry.
Initial(r) == [x \in {r} |-> Lsa(r, 0, 0, {r})]

Init ==
  /\ ports = [r \in Routers |-> <<>>]
  /\ conn = <<>> /\ status = <<>>
  /\ lsd = [r \in Routers |-> Initial(r)]
  /\ term = [r \in Routers |-> Idle]
  /\ todo = [attach |-> Attaches, start |-> MaxStarts, other |-> MaxOther]

-----------------------------------------------------------------------------
(* Sending *)

\* net with message m sent on each of the links.
Send(net, links, m) ==
  [c \in DOMAIN net |->
     IF c \in links THEN [net[c] EXCEPT !.req = Append(@, m)] ELSE net[c]]

TwoWay(r, prts) == SelectSeq(prts, LAMBDA c : status[c] = "TWO_WAY")

\* broadcastLSA() over the links prts, with the database store.
Broadcast(net, r, prts, store) ==
  Send(net, ToSet(TwoWay(r, prts)), [Msg("LSAUPDATE", r) EXCEPT !.lsas = <<store[r]>>])

\* new Link(): a connection to s.
NewLink(net, r, s, msgs) ==
  Append(net, [from |-> r, to |-> s, req |-> msgs, resp |-> <<>>,
               handler |-> "ready", link |-> 0])

\* The ports of r change: a loop of the terminal over them notices.
SetPorts(r, prts) == ports' = [ports EXCEPT ![r] = prts]

\* The lock of ports is free: a handler keeps it from its ACCEPT until the link
\* is added.
Unlocked(r) == \A c \in Links : Peer(c) = r => conn[c].handler # "accept"

TermAfterChange(r) == [term EXCEPT ![r].changed = term[r].pc \in {"start", "hello", "ack"}]

-----------------------------------------------------------------------------
(* The database *)

Put(store, x, l) == [y \in DOMAIN store \cup {x} |-> IF y = x THEN l ELSE store[y]]
Without(store, x) == [y \in DOMAIN store \ {x} |-> store[y]]

\* Mutant: the received number is the one that is increased.
Numbered_Own(store, l) ==
  IF l.id \in DOMAIN store THEN [l EXCEPT !.seq = @ + 1] ELSE l

\* The number that addLSA() stores.
Numbered(store, l) ==
  IF l.id \in DOMAIN store THEN [l EXCEPT !.seq = store[l.id].seq + 1] ELSE l

addLSA(store, l) == Put(store, l.id, Numbered(store, l))

Neighbors(prts) == {Peer(c) : c \in ToSet(prts)}

\* r publishes links to the routers in S.
Publish(r, S) == addLSA(lsd[r], Lsa(r, 0, lsd[r][r].ver + 1, S))

\* Routers that getShortestPath() visits from r.
Visited(r) ==
  LET next(S) == S \cup UNION {lsd[r][x].links : x \in S \cap DOMAIN lsd[r]}
  IN next(next(next({r})))

-----------------------------------------------------------------------------
(* The terminal *)

Typed(field, r) ==
  /\ term[r].pc = "idle"
  /\ todo[field][r] > 0
  /\ todo' = [todo EXCEPT ![field][r] = @ - 1]

\* The terminal ends and the process with it.
Gone(r) == term[r].pc = "quit"

\* No answer can come any more: read() returns null, and using it ends the
\* terminal with an exception.
AnswerLost(r) ==
  /\ term[r].pc \in {"attach", "hello"}
  /\ conn[term[r].link].resp = <<>> /\ Gone(Peer(term[r].link))
  /\ term' = [term EXCEPT ![r] = Stopped("ended")]
  /\ UNCHANGED <<ports, conn, status, lsd, todo>>

Attach(r, s) ==
  /\ term[r].pc = "idle"
  /\ <<r, s>> \in todo.attach
  /\ todo' = [todo EXCEPT !.attach = @ \ {<<r, s>>}]
  /\ IF Len(ports[r]) >= MaxPorts THEN UNCHANGED <<conn, status, term>>
     ELSE IF Gone(s) THEN term' = [term EXCEPT ![r] = Stopped("ended")]
                          /\ UNCHANGED <<conn, status>>
     ELSE /\ conn' = NewLink(conn, r, s, <<Msg("ATTACH", r)>>)
          /\ status' = Append(status, "IDLE")
          /\ term' = [term EXCEPT ![r] = [Idle EXCEPT !.pc = "attach", !.link = Len(conn) + 1]]
  /\ UNCHANGED <<ports, lsd>>

\* The answer to ATTACH.
AttachAnswer(r) ==
  /\ term[r].pc = "attach"
  /\ LET c == term[r].link
     IN /\ conn[c].resp # <<>>
        /\ conn' = [conn EXCEPT ![c].resp = Tail(@)]
        /\ IF Head(conn[c].resp).type = "ACCEPT"
           THEN Unlocked(r) /\ SetPorts(r, Append(ports[r], c))
           ELSE UNCHANGED ports
  /\ term' = [term EXCEPT ![r] = Idle]
  /\ UNCHANGED <<status, lsd, todo>>

Start(r) ==
  /\ Typed("start", r)
  /\ term' = [term EXCEPT ![r] = [Idle EXCEPT !.pc = "start"]]
  /\ UNCHANGED <<ports, conn, status, lsd>>

\* One turn of the loop of processStart().  The iterator compares its position
\* with the size before it looks for changes of the list.
StartLink(r) ==
  /\ term[r].pc = "start"
  /\ LET k == term[r].k + 1
         c == ports[r][k]
     IN IF term[r].k = Len(ports[r])
        THEN term' = [term EXCEPT ![r].pc = "list"] /\ UNCHANGED conn
        ELSE IF term[r].changed
        THEN term' = [term EXCEPT ![r] = Stopped("ended")] /\ UNCHANGED conn
        ELSE IF status[c] = "TWO_WAY"
        THEN term' = [term EXCEPT ![r].k = k] /\ UNCHANGED conn
        ELSE /\ conn' = Send(conn, {c}, Msg("HELLO", r))
             /\ term' = [term EXCEPT ![r].pc = "hello", ![r].k = k, ![r].link = c]
  /\ UNCHANGED <<ports, status, lsd, todo>>

HelloAck(r) ==
  /\ term[r].pc = "hello"
  /\ LET c == term[r].link
     IN /\ conn[c].resp # <<>>
        /\ conn' = [conn EXCEPT ![c].resp = Tail(@)]
        /\ status' = [status EXCEPT ![c] = "TWO_WAY"]
  /\ term' = [term EXCEPT ![r].pc = "ack"]
  /\ UNCHANGED <<ports, lsd, todo>>

SendTwoWay(r) ==
  /\ term[r].pc = "ack"
  /\ conn' = Send(conn, {term[r].link}, Msg("HELLO_TWO_WAY", r))
  /\ term' = [term EXCEPT ![r].pc = "start"]
  /\ UNCHANGED <<ports, status, lsd, todo>>

\* The end of processStart(): the links are listed without a lock ...
StartList(r) ==
  /\ term[r].pc = "list"
  /\ term' = [term EXCEPT ![r].pc = "publish", ![r].seen = Neighbors(ports[r])]
  /\ UNCHANGED <<ports, conn, status, lsd, todo>>

\* ... and the own LSA published as they were, with broadcastLSA().
StartPublish(r) ==
  /\ term[r].pc = "publish"
  /\ lsd' = [lsd EXCEPT ![r] = Publish(r, term[r].seen)]
  /\ conn' = Broadcast(conn, r, ports[r], lsd'[r])
  /\ term' = [term EXCEPT ![r] = Idle]
  /\ UNCHANGED <<ports, status, todo>>

Disconnect(r, k) ==
  /\ Typed("other", r) /\ Unlocked(r)
  /\ LET rest == RemoveAt(ports[r], k)
     IN /\ SetPorts(r, rest)
        /\ lsd' = [lsd EXCEPT ![r] = Publish(r, Neighbors(rest))]
        /\ conn' = Broadcast(Send(conn, {ports[r][k]}, Msg("DISCONNECT", r)), r, rest, lsd'[r])
  /\ UNCHANGED <<status, term>>

\* A port without a link: the exception of ports.get() ends the terminal.
DisconnectNone(r) ==
  /\ Typed("other", r) /\ Unlocked(r)
  /\ term' = [term EXCEPT ![r] = Stopped("ended")]
  /\ UNCHANGED <<ports, conn, status, lsd>>

\* processDetect(): a router that is named in the database but has no entry
\* has no distance, and the terminal ends with an exception; so it does if d is
\* not in the database at all.
Detect(r, d) ==
  /\ Typed("other", r)
  /\ term' = IF ~ Visited(r) \subseteq DOMAIN lsd[r] THEN [term EXCEPT ![r] = Stopped("ended")]
             ELSE IF d \notin DOMAIN lsd[r] THEN [term EXCEPT ![r] = Stopped("ended")]
             ELSE term
  /\ UNCHANGED <<ports, conn, status, lsd>>

\* The terminal compares the whole line with "connect ", so the command with its
\* arguments is an invalid one, which ends the terminal.
Connect(r) ==
  /\ Typed("other", r)
  /\ term' = [term EXCEPT ![r] = Stopped("ended")]
  /\ UNCHANGED <<ports, conn, status, lsd>>

\* processQuit() and System.exit(): nobody reads the connections any more.
Quit(r) ==
  /\ Typed("other", r) /\ Unlocked(r)
  /\ conn' = Send(conn, ToSet(ports[r]), Msg("DISCONNECT", r))
  /\ SetPorts(r, <<>>)
  /\ term' = [term EXCEPT ![r] = Stopped("quit")]
  /\ UNCHANGED <<status, lsd>>

-----------------------------------------------------------------------------
(* The handler thread of connection c, at router Peer(c) *)

Receive(c, type) ==
  /\ conn[c].handler = "ready" /\ ~ Gone(Peer(c))
  /\ conn[c].req # <<>>
  /\ Head(conn[c].req).type = type

Received(c) == [conn EXCEPT ![c].req = Tail(@)]

\* The first link of s with router r, 0 for none.
LinkTo(s, r) ==
  LET ks == {k \in 1..Len(ports[s]) : Peer(ports[s][k]) = r}
  IN IF ks = {} THEN 0 ELSE ports[s][CHOOSE k \in ks : \A j \in ks : k <= j]

\* ATTACH is answered under the lock of ports ...
HandleAttach(c) ==
  /\ Receive(c, "ATTACH") /\ Unlocked(Peer(c))
  /\ LET s == Peer(c)
         answer(type, next) == [Received(c) EXCEPT ![c].resp = Append(@, Msg(type, s)),
                                                   ![c].handler = next,
                                                   ![c].link = Head(conn[c].req).from]
     IN conn' = IF Len(ports[s]) < MaxPorts THEN answer("ACCEPT", "accept")
                ELSE [answer("REJECT", "ready") EXCEPT ![c].link = 0]
  /\ UNCHANGED <<ports, status, lsd, term, todo>>

\* ... and only then a connection made back, and the link added.
AttachBack(c) ==
  /\ conn[c].handler = "accept" /\ ~ Gone(Peer(c))
  /\ LET s == Peer(c)
     IN /\ conn' = NewLink([conn EXCEPT ![c].handler = "ready", ![c].link = 0], s, conn[c].link, <<>>)
        /\ status' = Append(status, "IDLE")
        /\ SetPorts(s, Append(ports[s], Len(conn) + 1))
        /\ term' = TermAfterChange(s)
  /\ UNCHANGED <<lsd, todo>>

\* Mutant: a HELLO of a router without a link is answered.
HandleHello_NoLink(c) ==
  /\ Receive(c, "HELLO")
  /\ LET s == Peer(c)
         l == LinkTo(s, Head(conn[c].req).from)
     IN /\ status' = IF l = 0 THEN status ELSE [status EXCEPT ![l] = "INIT"]
        /\ conn' = [Received(c) EXCEPT ![c].resp = Append(@, Msg("HELLO_ACK", s)),
                                       ![c].handler = IF l = 0 THEN "ready" ELSE "hello",
                                       ![c].link = l]
  /\ UNCHANGED <<ports, lsd, term, todo>>

\* Without a link to the sender the thread ends with an exception.
HandleHello(c) ==
  /\ Receive(c, "HELLO")
  /\ LET s == Peer(c)
         l == LinkTo(s, Head(conn[c].req).from)
     IN IF l = 0 THEN conn' = [Received(c) EXCEPT ![c].handler = "dead"] /\ UNCHANGED status
        ELSE /\ status' = [status EXCEPT ![l] = "INIT"]
             /\ conn' = [Received(c) EXCEPT ![c].resp = Append(@, Msg("HELLO_ACK", s)),
                                            ![c].handler = "hello", ![c].link = l]
  /\ UNCHANGED <<ports, lsd, term, todo>>

\* The next message on c is taken for the answer to HELLO_ACK, whatever it is.
HandleTwoWay(c) ==
  /\ conn[c].handler = "hello" /\ ~ Gone(Peer(c))
  /\ conn[c].req # <<>>
  /\ status' = IF Head(conn[c].req).type = "HELLO_TWO_WAY"
               THEN [status EXCEPT ![conn[c].link] = "TWO_WAY"] ELSE status
  /\ conn' = [Received(c) EXCEPT ![c].handler = "ready", ![c].link = 0]
  /\ UNCHANGED <<ports, lsd, term, todo>>

\* s forgets what it knows of r.
Forget(store, s, r) == Without(store, r)

\* The link goes in one critical section ...
HandleDisconnect(c) ==
  /\ Receive(c, "DISCONNECT") /\ Unlocked(Peer(c))
  /\ LET s == Peer(c)
         r == Head(conn[c].req).from
         rest == Remove(ports[s], LinkTo(s, r))
     IN /\ SetPorts(s, rest)
        /\ term' = IF rest = ports[s] THEN term ELSE TermAfterChange(s)
        /\ conn' = [Received(c) EXCEPT ![c].handler = "disconnect", ![c].link = r]
  /\ UNCHANGED <<status, lsd, todo>>

\* ... and the own LSA is published in another, with the links there are by then.
DisconnectPublish(c) ==
  /\ conn[c].handler = "disconnect" /\ ~ Gone(Peer(c)) /\ Unlocked(Peer(c))
  /\ LET s == Peer(c)
     IN /\ lsd' = [lsd EXCEPT ![s] = Forget(Publish(s, Neighbors(ports[s])), s, conn[c].link)]
        /\ conn' = Broadcast([conn EXCEPT ![c].handler = "ready", ![c].link = 0],
                             s, ports[s], lsd'[s])
  /\ UNCHANGED <<ports, status, term, todo>>

\* Mutant: an equal number counts as new.
Fresh_Equal(store, l) == ~ (l.id \in DOMAIN store /\ store[l.id].seq > l.seq)

Fresh(store, l) == ~ (l.id \in DOMAIN store /\ store[l.id].seq >= l.seq)

\* One LSA of an update: acc has the database and the LSAs as they go on.
TakeLSA(acc, l) ==
  IF Fresh(acc.store, l)
  THEN [store |-> addLSA(acc.store, l), lsas |-> Append(acc.lsas, Numbered(acc.store, l))]
  ELSE [acc EXCEPT !.lsas = Append(@, l)]

TakeLSAs(s, m) == FoldLeft(TakeLSA, [store |-> lsd[s], lsas |-> <<>>], m.lsas)

\* The links an update from r is forwarded on.  The loop overwrites the
\* message's routerID when it sends it, so only links before the first one
\* used are skipped.
ForwardTo(s, r) ==
  LET two == TwoWay(s, ports[s])
      first == SelectInSeq(two, LAMBDA c : Peer(c) # r)
  IN IF first = 0 THEN {} ELSE {two[k] : k \in first..Len(two)}

HandleUpdate(c) ==
  /\ Receive(c, "LSAUPDATE") /\ Unlocked(Peer(c))
  /\ LET s == Peer(c)
         m == Head(conn[c].req)
         t == TakeLSAs(s, m)
     IN /\ lsd' = [lsd EXCEPT ![s] = t.store]
        /\ conn' = Send(Received(c), ForwardTo(s, m.from),
                        [Msg("LSAUPDATE", s) EXCEPT !.lsas = Append(t.lsas, t.store[s])])
  /\ UNCHANGED <<ports, status, term, todo>>

\* A HELLO_TWO_WAY that comes when none is waited for.
HandleOther(c) ==
  /\ Receive(c, "HELLO_TWO_WAY")
  /\ conn' = Received(c)
  /\ UNCHANGED <<ports, status, lsd, term, todo>>

Terminal(r) ==
  \/ AttachAnswer(r) \/ AnswerLost(r) \/ StartLink(r) \/ HelloAck(r) \/ SendTwoWay(r)
  \/ StartList(r) \/ StartPublish(r)

Handler(c) ==
  \/ HandleAttach(c) \/ AttachBack(c) \/ HandleHello(c) \/ HandleTwoWay(c) \/ HandleDisconnect(c)
  \/ DisconnectPublish(c) \/ HandleUpdate(c) \/ HandleOther(c)

Command(r) ==
  \/ \E s \in Routers : Attach(r, s) \/ Detect(r, s)
  \/ Start(r) \/ DisconnectNone(r) \/ Connect(r) \/ Quit(r)
  \/ \E k \in 1..Len(ports[r]) : Disconnect(r, k)

Next == \E r \in Routers : Command(r) \/ Terminal(r) \/ (\E c \in Links : Peer(c) = r /\ Handler(c))

Spec == Init /\ [][Next]_vars

-----------------------------------------------------------------------------
Types == {"ATTACH", "ACCEPT", "REJECT", "HELLO", "HELLO_ACK", "HELLO_TWO_WAY",
          "LSAUPDATE", "DISCONNECT"}
TermPcs == {"idle", "attach", "start", "hello", "ack", "list", "publish"}
Ends == {"quit", "ended"}

TypeOK ==
  /\ \A r \in Routers :
       /\ ToSet(ports[r]) \subseteq Links
       /\ r \in DOMAIN lsd[r]
       /\ \A x \in DOMAIN lsd[r] : lsd[r][x].id = x /\ lsd[r][x].links \subseteq Routers
       /\ term[r].pc \in TermPcs \cup Ends
  /\ \A c \in Links :
       /\ conn[c].handler \in {"ready", "accept", "hello", "disconnect", "dead"}
       /\ \A m \in ToSet(conn[c].req) \cup ToSet(conn[c].resp) : m.type \in Types
       /\ status[c] \in {"IDLE", "INIT", "TWO_WAY"}

\* All copies of LSAs: in databases and under way.
Copies ==
  UNION {{lsd[r][x] : x \in DOMAIN lsd[r]} : r \in Routers}
  \cup UNION {UNION {ToSet(m.lsas) : m \in ToSet(conn[c].req)} : c \in Links}

\* No copy of a router's LSA has a higher number than the router's own entry:
\* otherwise a router would take an old copy of its own LSA for news and lose
\* its links.
OwnNewest == \A l \in Copies : l.seq <= lsd[l.id][l.id].seq

\* A router takes no copy of its own LSA back, whatever comes back to it: its
\* entry changes only when it publishes.
OwnEntryKept ==
  [][\A r \in Routers : lsd'[r][r] # lsd[r][r] => lsd'[r][r].ver = lsd[r][r].ver + 1]_vars

\* A router takes a link for TWO_WAY only if the other end has a link back that
\* has begun the handshake, although the two add their links at different times
\* and a HELLO may come before the link it needs ("set status of remote to
\* TWO_WAY", Server.java:132, Router.java:214).  Claimed until a router gives links
\* up: DISCONNECT takes them away at one end first.  The other end need not be
\* TWO_WAY: an LSAUPDATE that comes before HELLO_TWO_WAY is taken for it.
TwoWayAnswered ==
  todo.other = MaxOther =>
    \A r \in Routers : \A c \in ToSet(ports[r]) :
      status[c] = "TWO_WAY" =>
        \E d \in ToSet(ports[Peer(c)]) : Peer(d) = r /\ status[d] # "IDLE"
=============================================================================
