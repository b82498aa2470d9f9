------------------------------ MODULE RelayPath ------------------------------
(***************************************************************************)
(* The way of a child's datagrams through the relay: the UDP bridge of the *)
(* VPS puts each into a frame for the home node, the handler of the node's *)
(* WebSocket takes frames from it, and the relay client on the home node   *)
(* (relay/client.go) unpacks them for the local WireGuard and packs its    *)
(* answers.  Both ends ping each other, both give up on a silent           *)
(* connection, and the client connects again after a delay.                *)
(*                                                                         *)
(* One tick of the clock is 5 seconds; on that scale what is sent arrives  *)
(* at once and a timer that is due fires.  Whether the family is in        *)
(* fallback is the matter of RelayFallback, what closes a channel that of  *)
(* RelaySessions.  WireGuard and the network are external.                 *)
(***************************************************************************)
EXTENDS Naturals, Sequences, FiniteSets

CONSTANTS
  Child,       \* the children, each with the UDP address it sends from
  Local,       \* 127.0.0.1:51820: WireGuard on the home node; on the VPS it is
               \* the socket of the bridge itself
  Cap,         \* sendBufSize: frames a Send channel holds
  MaxSend,     \* bound: datagrams the children send
  MaxFault,    \* bound: cut connections, refused dials, failing sockets
  MaxRestart   \* bound: ends of one of the two processes

ASSUME PathAssumption ==
  /\ Local \notin Child
  /\ Cap \in Nat \ {0}
  /\ {MaxSend, MaxFault, MaxRestart} \subseteq Nat

\* Every session but the first follows a fault or the end of a process.
Session == 1..(MaxFault + MaxRestart + 1)

VARIABLES
  inbox,       \* datagrams at the socket of the bridge
  answers,     \* what WireGuard has sent to the client's socket
  delivered,   \* history: what the bridge sent to children, and where
  client,      \* what the relay client does: "waiting", "session", "stopped"
  cur,         \* the number of its session, the present or the last
  delay,       \* connectLoop's delay
  wait,        \* ticks left of the delay it waits for
  readers,     \* goroutines of each session of the client that still run
  errs,        \* errors in each session's errCh
  up,          \* the client's send channel, by session
  link,        \* the connection: "none", "up", "cut", "closed"
  handler,     \* the handler of the broker for each connection
  down,        \* its Send channel
  registered,  \* the connection the registry has for the node, or 0
  heard,       \* ticks since each end of a connection has received a frame
  timer,       \* ticks since the pings of a connection
  abrupt,      \* history: the client lost a connection that the broker could
               \* not see end, and has not waited for its own deadline
  count        \* history: how often each bounded event has happened

clientVars == <<client, cur, delay, wait>>
queues == <<up, down>>
pathVars == <<inbox, answers, delivered, clientVars, readers, errs, queues, link,
              handler, registered, heard, timer, abrupt, count>>

Bound == [send |-> MaxSend, fault |-> MaxFault, restart |-> MaxRestart]

Spend(k) ==
  /\ count[k] < Bound[k]
  /\ count' = [count EXCEPT ![k] = @ + 1]

Load == [kind : {"request", "reply"}, child : Child]
Tag == Child \union {Local}
Frame == [type : {"ping", "pong"}] \union [type : {"data"}, tag : Tag, load : Load]

-----------------------------------------------------------------------------
(* Times in ticks, and the capacity of errCh.                               *)

PingInterval == 3

\* Faulty variant: no time for the ping itself.
BugNoGrace == PingInterval

\* pingInterval + pingTimeout of the broker, 25 s.
BrokerDeadline == PingInterval + 2

\* Faulty variant: half the time.
BugReadTimeout == 4

\* clientReadTimeout, 40 s.
ClientDeadline == 8

ReconnectBase == 1
ReconnectMax == 6

\* Faulty variant: room for one of the two readers.
BugErrCap == 1

ErrCap == 2

\* A frame for a channel that is full is dropped, a ping too.
Offer(q, f) == IF Len(q) < Cap THEN Append(q, f) ELSE q

Wrap(tag, load) == [type |-> "data", tag |-> tag, load |-> load]

Control(type) == [type |-> type]

-----------------------------------------------------------------------------
(* The bridge.                                                              *)

ChildSends(d) ==
  /\ Spend("send")
  /\ inbox' = inbox \union
       {[src |-> d, load |-> [kind |-> "request", child |-> d]]}
  /\ UNCHANGED <<answers, delivered, clientVars, readers, errs, queues, link,
                 handler, registered, heard, timer, abrupt>>

\* readLoop with a node in the registry.
BridgeForwards(m) ==
  /\ m \in inbox
  /\ registered # 0
  /\ inbox' = inbox \ {m}
  /\ down' = [down EXCEPT ![registered] = Offer(@, Wrap(m.src, m.load))]
  /\ UNCHANGED <<answers, delivered, clientVars, readers, errs, up, link,
                 handler, registered, heard, timer, abrupt, count>>

\* readLoop without a node, or with one whose LastSeen is a minute old: the
\* datagram goes the other way, or is dropped.
BridgeFallsBack(m) ==
  /\ m \in inbox
  /\ inbox' = inbox \ {m}
  /\ UNCHANGED <<answers, delivered, clientVars, readers, errs, queues, link,
                 handler, registered, heard, timer, abrupt, count>>

-----------------------------------------------------------------------------
(* The client.                                                              *)

InSession(s) == client = "session" /\ cur = s

\* websocket.Dial; the handler of the broker registers the node.
Dial ==
  /\ client = "waiting" /\ wait = 0
  /\ cur + 1 \in Session
  /\ LET s == cur + 1 IN
       /\ cur' = s
       /\ readers' = [readers EXCEPT ![s] = {"wg", "ws"}]
       /\ link' = [link EXCEPT ![s] = "up"]
       /\ handler' = [handler EXCEPT ![s] = "open"]
       /\ registered' = s
  /\ client' = "session"
  /\ UNCHANGED <<inbox, answers, delivered, delay, wait, errs, queues, heard,
                 timer, abrupt, count>>

\* connectLoop waits, and doubles the delay for the next time: it is never
\* reset.
Again ==
  /\ client' = "waiting"
  /\ wait' = delay
  /\ delay' = IF 2 * delay > ReconnectMax THEN ReconnectMax ELSE 2 * delay

DialFails ==
  /\ client = "waiting" /\ wait = 0
  /\ Spend("fault")
  /\ Again
  /\ UNCHANGED <<inbox, answers, delivered, cur, readers, errs, queues, link,
                 handler, registered, heard, timer, abrupt>>

\* What the deferred Close calls of runSession do.
Close(s) ==
  /\ link' = [link EXCEPT ![s] = IF @ = "up" THEN "closed" ELSE @]
  /\ up' = [up EXCEPT ![s] = <<>>]
  /\ answers' = {}

\* Faulty variant: connectLoop returns when a session ends.
BugNoRetry ==
  /\ client = "session"
  /\ errs[cur] > 0
  /\ errs' = [errs EXCEPT ![cur] = @ - 1]
  /\ Close(cur)
  /\ client' = "gone"
  /\ UNCHANGED <<inbox, delivered, cur, delay, wait, readers, down, handler,
                 registered, heard, timer, abrupt, count>>

\* runSession returns what a reader has reported.
SessionEnds ==
  /\ client = "session"
  /\ errs[cur] > 0
  /\ errs' = [errs EXCEPT ![cur] = @ - 1]
  /\ abrupt' = \/ abrupt
               \/ link[cur] = "cut" /\ heard[cur].client < ClientDeadline
  /\ Close(cur)
  /\ Again
  /\ UNCHANGED <<inbox, delivered, cur, readers, down, handler, registered,
                 heard, timer, count>>

\* A write on a dead connection fails before the read deadline.
WriteFails ==
  /\ client = "session"
  /\ link[cur] \in {"cut", "closed"}
  /\ up[cur] # <<>>
  /\ abrupt' = (abrupt \/ link[cur] = "cut")
  /\ Close(cur)
  /\ Again
  /\ UNCHANGED <<inbox, delivered, cur, readers, errs, down, handler,
                 registered, heard, timer, count>>

\* The reader of the WebSocket: a ping is answered, the payload of a data frame
\* goes to WireGuard, which answers a request or not and drops anything else.
ClientReceives ==
  /\ client = "session"
  /\ link[cur] = "up"
  /\ "ws" \in readers[cur]
  /\ down[cur] # <<>>
  /\ LET f == Head(down[cur]) IN
       /\ up' = IF f.type = "ping"
                THEN [up EXCEPT ![cur] = Offer(@, Control("pong"))] ELSE up
       /\ \/ UNCHANGED answers
          \/ /\ f.type = "data" /\ f.load.kind = "request"
             /\ answers' = answers \union {[f.load EXCEPT !.kind = "reply"]}
  /\ down' = [down EXCEPT ![cur] = Tail(@)]
  /\ heard' = [heard EXCEPT ![cur].client = 0]
  /\ UNCHANGED <<inbox, delivered, clientVars, readers, errs, link, handler,
                 registered, timer, abrupt, count>>

\* The reader of WireGuard's answers tags each with the address it came from.
ClientWraps(a) ==
  /\ client = "session"
  /\ "wg" \in readers[cur]
  /\ a \in answers
  /\ answers' = answers \ {a}
  /\ up' = [up EXCEPT ![cur] = Offer(@, Wrap(Local, a))]
  /\ UNCHANGED <<inbox, delivered, clientVars, readers, errs, down, link,
                 handler, registered, heard, timer, abrupt, count>>

\* A reader sends its error to errCh and returns; while the channel is full it
\* blocks.
Report(s, r) ==
  /\ r \in readers[s]
  /\ errs[s] < ErrCap
  /\ errs' = [errs EXCEPT ![s] = @ + 1]
  /\ readers' = [readers EXCEPT ![s] = @ \ {r}]
  /\ UNCHANGED <<inbox, answers, delivered, clientVars, queues, link, handler,
                 registered, heard, timer, abrupt>>

\* Its socket is closed by runSession or by the other end, or the deadline has
\* passed.
ReaderEnds(s, r) ==
  /\ \/ ~InSession(s)
     \/ r = "ws" /\ link[s] = "closed"
     \/ r = "ws" /\ heard[s].client >= ClientDeadline
  /\ Report(s, r)
  /\ UNCHANGED count

\* WireGuard does not listen: the error shows at the next read.
WgRefuses(s) ==
  /\ InSession(s)
  /\ Report(s, "wg")
  /\ Spend("fault")

\* The process of the home node ends: on Stop, with its connection, or without
\* a word.
Quit(how) ==
  /\ client # "stopped"
  /\ Spend("restart")
  /\ client' = "stopped"
  /\ readers' = [s \in Session |-> {}]
  /\ errs' = [s \in Session |-> 0]
  /\ up' = [s \in Session |-> <<>>]
  /\ answers' = {}
  /\ link' = [s \in Session |-> IF InSession(s) /\ link[s] = "up" THEN how
                                ELSE link[s]]
  /\ abrupt' = (abrupt \/ \E s \in Session : link'[s] = "cut")
  /\ UNCHANGED <<inbox, delivered, cur, delay, wait, down, handler, registered,
                 heard, timer>>

-----------------------------------------------------------------------------
(* The broker's end of a connection.                                        *)

\* ForwardToDevice finds no session for the tag and hands the payload to the
\* bridge.  DeliverToClient sends it to the address the tag names; what goes to
\* Local arrives at its own socket.
HandlerReceives(s) ==
  /\ handler[s] = "open"
  /\ link[s] = "up"
  /\ up[s] # <<>>
  /\ LET f == Head(up[s])
         here == f.type = "data" /\ f.tag = Local
     IN
       /\ down' = IF f.type = "ping"
                  THEN [down EXCEPT ![s] = Offer(@, Control("pong"))] ELSE down
       /\ inbox' = IF here THEN inbox \union {[src |-> Local, load |-> f.load]}
                   ELSE inbox
       /\ delivered' = IF f.type = "data"
                       THEN delivered \union {[to |-> f.tag, load |-> f.load]}
                       ELSE delivered
  /\ up' = [up EXCEPT ![s] = Tail(@)]
  /\ heard' = [heard EXCEPT ![s].broker = 0]
  /\ UNCHANGED <<answers, clientVars, readers, errs, link, handler, registered,
                 timer, abrupt, count>>

\* The read loop ends; UnregisterNode goes by the name of the node.
HandlerEnds(s) ==
  /\ handler[s] = "open"
  /\ link[s] = "closed" \/ heard[s].broker >= BrokerDeadline
  /\ handler' = [handler EXCEPT ![s] = "ended"]
  /\ registered' = 0
  /\ link' = [link EXCEPT ![s] = IF @ = "up" THEN "closed" ELSE @]
  /\ down' = [down EXCEPT ![s] = <<>>]
  /\ UNCHANGED <<inbox, answers, delivered, clientVars, readers, errs, up, heard,
                 timer, abrupt, count>>

\* The process of the broker ends, for instance on an unsynchronised access to
\* clientAddrs, and is started again.
BrokerDies ==
  /\ Spend("restart")
  /\ handler' = [s \in Session |-> IF handler[s] = "open" THEN "ended"
                                   ELSE handler[s]]
  /\ link' = [s \in Session |-> IF link[s] = "up" THEN "closed" ELSE link[s]]
  /\ down' = [s \in Session |-> <<>>]
  /\ registered' = 0
  /\ inbox' = {}
  /\ UNCHANGED <<answers, delivered, clientVars, readers, errs, up, heard,
                 timer, abrupt>>

-----------------------------------------------------------------------------
(* Time and the network.                                                    *)

\* The two tickers of a connection start together.
Ping(s) ==
  /\ timer[s] = PingInterval
  /\ timer' = [timer EXCEPT ![s] = 0]
  /\ up' = IF InSession(s) THEN [up EXCEPT ![s] = Offer(@, Control("ping"))]
           ELSE up
  /\ down' = IF handler[s] = "open"
             THEN [down EXCEPT ![s] = Offer(@, Control("ping"))] ELSE down
  /\ UNCHANGED <<inbox, answers, delivered, clientVars, readers, errs, link,
                 handler, registered, heard, abrupt, count>>

\* The connection is dead, and neither end is told.
Cut(s) ==
  /\ link[s] = "up"
  /\ Spend("fault")
  /\ link' = [link EXCEPT ![s] = "cut"]
  /\ UNCHANGED <<inbox, answers, delivered, clientVars, readers, errs, queues,
                 handler, registered, heard, timer, abrupt>>

\* What is written to a dead connection is lost.
Lose(s) ==
  /\ link[s] \in {"cut", "closed"}
  /\ up[s] # <<>> \/ down[s] # <<>>
  /\ up' = [up EXCEPT ![s] = <<>>]
  /\ down' = [down EXCEPT ![s] = <<>>]
  /\ UNCHANGED <<inbox, answers, delivered, clientVars, readers, errs, link,
                 handler, registered, heard, timer, abrupt, count>>

\* Nothing is under way and nothing is due.
Quiet ==
  /\ inbox = {} /\ answers = {}
  /\ \A s \in Session :
       /\ up[s] = <<>> /\ down[s] = <<>>
       /\ timer[s] < PingInterval
       /\ handler[s] = "open" =>
            link[s] # "closed" /\ heard[s].broker < BrokerDeadline
       /\ InSession(s) =>
            link[s] # "closed" /\ heard[s].client < ClientDeadline
       /\ IF InSession(s) THEN errs[s] = 0
          ELSE readers[s] = {} \/ errs[s] = ErrCap
  /\ client = "waiting" => wait > 0

Tick ==
  /\ Quiet
  /\ wait' = IF client = "waiting" THEN wait - 1 ELSE wait
  /\ heard' = [s \in Session |->
       [broker |-> IF handler[s] = "open" THEN heard[s].broker + 1 ELSE 0,
        client |-> IF InSession(s) THEN heard[s].client + 1 ELSE 0]]
  /\ timer' = [s \in Session |->
       IF handler[s] = "open" \/ InSession(s) THEN timer[s] + 1 ELSE 0]
  /\ UNCHANGED <<inbox, answers, delivered, client, cur, delay, readers, errs,
                 queues, link, handler, registered, abrupt, count>>

\* A new process of the home node; it takes longer than what is under way.
Start ==
  /\ client = "stopped"
  /\ Quiet
  /\ client' = "waiting"
  /\ wait' = 0
  /\ delay' = ReconnectBase
  /\ UNCHANGED <<inbox, answers, delivered, cur, readers, errs, queues, link,
                 handler, registered, heard, timer, abrupt, count>>

-----------------------------------------------------------------------------
PathInit ==
  /\ inbox = {} /\ answers = {} /\ delivered = {}
  /\ client = "waiting"
  /\ cur = 0
  /\ delay = ReconnectBase
  /\ wait = 0
  /\ readers = [s \in Session |-> {}]
  /\ errs = [s \in Session |-> 0]
  /\ up = [s \in Session |-> <<>>]
  /\ down = [s \in Session |-> <<>>]
  /\ link = [s \in Session |-> "none"]
  /\ handler = [s \in Session |-> "none"]
  /\ registered = 0
  /\ heard = [s \in Session |-> [broker |-> 0, client |-> 0]]
  /\ timer = [s \in Session |-> 0]
  /\ abrupt = FALSE
  /\ count = [k \in DOMAIN Bound |-> 0]

Bridge == \E m \in inbox : BridgeForwards(m) \/ BridgeFallsBack(m)

Connect == Dial \/ DialFails

Receive == ClientReceives \/ \E a \in answers : ClientWraps(a)

SomeReaderEnds(s) == \E r \in readers[s] : ReaderEnds(s, r)

PathNext ==
  \/ \E d \in Child : ChildSends(d)
  \/ Bridge
  \/ Connect
  \/ SessionEnds \/ WriteFails
  \/ Receive
  \/ \E s \in Session : SomeReaderEnds(s) \/ WgRefuses(s)
  \/ \E how \in {"closed", "cut"} : Quit(how)
  \/ Start
  \/ \E s \in Session : HandlerReceives(s) \/ HandlerEnds(s)
  \/ BrokerDies
  \/ \E s \in Session : Ping(s) \/ Cut(s) \/ Lose(s)
  \/ Tick

\* Goroutines run, the network delivers and time passes; a home node that went
\* down may stay so.
Fairness ==
  /\ WF_pathVars(Bridge) /\ WF_pathVars(Connect) /\ WF_pathVars(SessionEnds)
  /\ WF_pathVars(Receive) /\ WF_pathVars(Tick)
  /\ \A s \in Session :
       /\ WF_pathVars(SomeReaderEnds(s))
       /\ WF_pathVars(HandlerReceives(s)) /\ WF_pathVars(HandlerEnds(s))
       /\ WF_pathVars(Ping(s)) /\ WF_pathVars(Lose(s))

PathSpec == PathInit /\ [][PathNext]_pathVars /\ Fairness

-----------------------------------------------------------------------------
PathTypeOK ==
  /\ inbox \subseteq [src : Tag, load : Load]
  /\ answers \subseteq Load
  /\ delivered \subseteq [to : Tag, load : Load]
  /\ client \in {"waiting", "session", "stopped"}
  /\ cur \in Session \union {0}
  /\ delay \in ReconnectBase..ReconnectMax
  /\ wait \in 0..ReconnectMax
  /\ readers \in [Session -> SUBSET {"wg", "ws"}]
  /\ errs \in [Session -> 0..ErrCap]
  /\ up \in [Session -> Seq(Frame)] /\ down \in [Session -> Seq(Frame)]
  /\ link \in [Session -> {"none", "up", "cut", "closed"}]
  /\ handler \in [Session -> {"none", "open", "ended"}]
  /\ registered \in Session \union {0}
  /\ heard \in [Session -> [broker : 0..BrokerDeadline,
                            client : 0..ClientDeadline]]
  /\ timer \in [Session -> 0..PingInterval]
  /\ abrupt \in BOOLEAN
  /\ count \in [DOMAIN Bound -> Nat]

\* Pings share the bounded channels with the datagrams and are dropped when one
\* is full, and yet a connection that delivers is never given up for silence:
\* what fills a channel is a sign of life too.
KeptAlive ==
  \A s \in Session : link[s] = "up" =>
    /\ handler[s] = "open" => heard[s].broker < BrokerDeadline
    /\ InSession(s) => heard[s].client < ClientDeadline

\* UnregisterNode goes by the node's name, so a handler that ends late would
\* take its successor off the registry.  The deadlines rule that out: a client
\* that waits for its own deadline finds the handler of the dead connection gone.
NoLateUnregister ==
  client = "session" /\ handler[cur] = "open" /\ ~abrupt => registered = cur

\* The inductive invariant behind both.  A connection that delivers has both its
\* ends, and each has heard the other since the last ping but one, or has a frame
\* before it: time does not pass until it is read.
LiveInv ==
  /\ client = "session" => cur # 0
  /\ \A s \in Session :
       /\ s > cur =>
            /\ handler[s] = "none" /\ link[s] = "none"
            /\ timer[s] = 0 /\ heard[s] = [broker |-> 0, client |-> 0]
       /\ InSession(s) => link[s] # "none"
       /\ link[s] = "up" =>
            /\ InSession(s) /\ handler[s] = "open"
            /\ heard[s].broker <= PingInterval /\ heard[s].client <= PingInterval
            /\ up[s] = <<>> => heard[s].broker <= timer[s]
            /\ down[s] = <<>> => heard[s].client <= timer[s]

\* When a connection is cut, the client's silence is at most one ping longer than
\* the broker's, and its deadline is longer by as much.  So a handler that
\* outlives its session is due, and the client waits at least until it has ended.
LateInv ==
  \A s \in Session :
    /\ link[s] = "cut" /\ InSession(s) /\ handler[s] = "open" =>
         heard[s].client <= heard[s].broker + PingInterval
    /\ ~abrupt /\ handler[s] = "open" /\ ~InSession(s) =>
         /\ client # "session"
         /\ client = "waiting" => wait > 0
         /\ link[s] = "closed" \/ heard[s].broker >= BrokerDeadline

\* Both readers of a session that has ended return, whichever error ended it:
\* no reconnect leaves a goroutine behind.
ReadersEnd ==
  \A s \in Session : readers[s] # {} /\ ~InSession(s) ~> readers[s] = {}

\* However connections broke, dials failed and processes ended, a home node that
\* runs ends up connected for good, and in the registry unless a connection was
\* lost that the broker could not see end.
Reconnects ==
  <>[](\/ client = "stopped"
       \/ /\ client = "session" /\ link[cur] = "up" /\ handler[cur] = "open"
          /\ registered = cur \/ abrupt)

\* relay_udp_bridge.go: the reply goes from the home node by DeliverToClient to
\* the child.
RepliesGoHome ==
  \A m \in delivered : m.load.kind = "reply" => m.to = m.load.child
=============================================================================
