---------------------------- MODULE SessionsProofs ----------------------------
(***************************************************************************)
(* Proofs about Sessions for every set of users and applications and any   *)
(* number of switches and exits.                                           *)
(***************************************************************************)
EXTENDS Sessions, TLAPS

\* The shape of the records the argument looks into.
Client == [user : Users \cup {Nobody}, state : {"none", "connecting", "connected", "dead"}]

GrabberOK(g) ==
    /\ DOMAIN g = {"up", "current", "monitors", "receiver", "grabbing", "app"}
    /\ DOMAIN g.receiver = {"owner", "client", "app"}
    /\ g.receiver.client \in Client

Shape ==
    /\ DOMAIN server = Users /\ DOMAIN queue = Users
    /\ \A u \in Users : DOMAIN server[u] = {"up", "on", "link", "heartbeat"}

\* Who may talk to the receiver: a connection, or a message on the way, exists
\* only while the receiver belongs to the user at its other end ...
OwnerTalks ==
    \A u \in Users : server[u].link = "up" \/ queue[u] # <<>>
                        => grabber.up /\ grabber.receiver.owner = u

\* ... and so does the client the receiver has made for a console_user_server.
OwnerIsClient(g) ==
    LET client == g.receiver.client
    IN  /\ client.user \in Users => client.user = g.receiver.owner
        /\ client.state # "none" => client.user \in Users

\* What holds of the grabber alone.
GrabberInv(g) ==
    /\ GrabberOK(g)
    /\ OwnerIsClient(g)
    /\ g.grabbing \in Users => g.up /\ g.receiver.owner = g.grabbing
    /\ g.grabbing # "none" => g.app = g.receiver.app

IInv ==
    /\ GrabberInv(grabber)
    /\ Shape
    /\ OwnerTalks

-----------------------------------------------------------------------------
(* The grabber's operators.                                                *)

\* A receiver that was just made has no client, and what is in use is no user's.
LEMMA StartReceiverOK ==
    ASSUME NEW g, GrabberInv(g), NEW uid
    PROVE  /\ GrabberInv(StartReceiver(g, uid))
           /\ StartReceiver(g, uid).up = g.up
           /\ StartReceiver(g, uid).receiver.owner = uid
<1> DEFINE n == StartReceiver(g, uid)
<1>1. /\ DOMAIN n = DOMAIN g
      /\ n.up = g.up
      /\ n.receiver = Receiver(uid)
      /\ n.grabbing = SystemConfiguration
      /\ n.app = NoApp
  BY DEF StartReceiver, GrabberInv, GrabberOK
<1> HIDE DEF n
<1>2. /\ n.receiver.owner = uid
      /\ n.receiver.client = NoClient
      /\ n.receiver.app = NoApp
      /\ DOMAIN n.receiver = {"owner", "client", "app"}
  BY <1>1 DEF Receiver
<1>3. NoClient \in Client /\ NoClient.user = Nobody /\ NoClient.state = "none"
  BY DEF NoClient, Client
<1>4. SystemConfiguration \notin Users
  BY SessionsAssumption DEF SystemConfiguration
<1>5. GrabberInv(n)
  BY <1>1, <1>2, <1>3, <1>4, SessionsAssumption DEF GrabberInv, GrabberOK, OwnerIsClient
<1> QED BY <1>1, <1>2, <1>5 DEF n

\* The device_grabber may be started with no user's configuration, or with the
\* one of the user behind the socket.
LEMMA StartDeviceGrabberOK ==
    ASSUME NEW g, GrabberInv(g), g.up, NEW c, c \in Users => c = g.receiver.owner
    PROVE  /\ GrabberInv(StartDeviceGrabber(g, c))
           /\ StartDeviceGrabber(g, c).up = g.up
           /\ StartDeviceGrabber(g, c).receiver = g.receiver
<1> DEFINE n == StartDeviceGrabber(g, c)
<1>1. /\ DOMAIN n = DOMAIN g
      /\ n.up = g.up
      /\ n.receiver = g.receiver
      /\ n.grabbing = c
      /\ n.app = g.receiver.app
  BY DEF StartDeviceGrabber, GrabberInv, GrabberOK
<1> HIDE DEF n
<1>2. GrabberInv(n)
  BY <1>1 DEF GrabberInv, GrabberOK, OwnerIsClient
<1> QED BY <1>1, <1>2 DEF n

\* Only the client changes, to one the owner may have.
LEMMA NewClientOK ==
    ASSUME NEW g, GrabberInv(g), NEW client \in Client,
           client.user \in Users => client.user = g.receiver.owner,
           client.state # "none" => client.user \in Users,
           NEW n, n = [g EXCEPT !.receiver.client = client]
    PROVE  GrabberInv(n) /\ n.up = g.up /\ n.receiver.owner = g.receiver.owner
<1>1. /\ DOMAIN n = DOMAIN g
      /\ n.up = g.up
      /\ n.grabbing = g.grabbing
      /\ n.app = g.app
      /\ n.receiver = [g.receiver EXCEPT !.client = client]
  BY DEF GrabberInv, GrabberOK
<1>2. /\ DOMAIN n.receiver = DOMAIN g.receiver
      /\ n.receiver.client = client
      /\ n.receiver.owner = g.receiver.owner
      /\ n.receiver.app = g.receiver.app
  BY <1>1 DEF GrabberInv, GrabberOK
<1>3. GrabberInv(n)
  BY <1>1, <1>2 DEF GrabberInv, GrabberOK, OwnerIsClient
<1> QED BY <1>1, <1>2, <1>3

\* The state of a client that is there changes.
LEMMA ClientStateOK ==
    ASSUME NEW g, GrabberInv(g), g.receiver.client.user \in Users,
           NEW state \in {"connecting", "connected", "dead"},
           NEW n, n = [g EXCEPT !.receiver.client.state = state]
    PROVE  GrabberInv(n) /\ n.up = g.up /\ n.receiver.owner = g.receiver.owner
<1>1. /\ DOMAIN n = DOMAIN g
      /\ n.up = g.up
      /\ n.grabbing = g.grabbing
      /\ n.app = g.app
      /\ n.receiver = [g.receiver EXCEPT !.client = [@ EXCEPT !.state = state]]
  BY DEF GrabberInv, GrabberOK
<1>2. /\ DOMAIN n.receiver = DOMAIN g.receiver
      /\ n.receiver.client = [g.receiver.client EXCEPT !.state = state]
      /\ n.receiver.owner = g.receiver.owner
      /\ n.receiver.app = g.receiver.app
  BY <1>1 DEF GrabberInv, GrabberOK
<1>3. /\ n.receiver.client \in Client
      /\ n.receiver.client.user = g.receiver.client.user
  BY <1>2 DEF GrabberInv, GrabberOK, Client
<1>4. GrabberInv(n)
  BY <1>1, <1>2, <1>3 DEF GrabberInv, GrabberOK, OwnerIsClient
<1> QED BY <1>1, <1>2, <1>4

\* A client socket that disappears leaves its client dead.
LEMMA EndpointGoneOK ==
    ASSUME NEW g, GrabberInv(g), NEW u \in Users
    PROVE  /\ GrabberInv(EndpointGone(g, u))
           /\ EndpointGone(g, u).up = g.up
           /\ EndpointGone(g, u).receiver.owner = g.receiver.owner
BY ClientStateOK DEF EndpointGone

-----------------------------------------------------------------------------
(* Init and the actions.                                                   *)

\* A grabber that has just started is nobody's.
LEMMA NewGrabberOK == GrabberInv(NewGrabber) /\ NewGrabber.up
<1> DEFINE n == NewGrabber
<1>1. /\ DOMAIN n = {"up", "current", "monitors", "receiver", "grabbing", "app"}
      /\ n.up = TRUE
      /\ n.receiver = Receiver(Nobody)
      /\ n.grabbing = SystemConfiguration
      /\ n.app = NoApp
  BY DEF NewGrabber
<1> HIDE DEF n
<1>2. /\ n.receiver.owner = Nobody
      /\ n.receiver.client = NoClient
      /\ n.receiver.app = NoApp
      /\ DOMAIN n.receiver = {"owner", "client", "app"}
  BY <1>1 DEF Receiver
<1>3. NoClient \in Client /\ NoClient.user = Nobody /\ NoClient.state = "none"
  BY DEF NoClient, Client
<1>4. SystemConfiguration \notin Users
  BY SessionsAssumption DEF SystemConfiguration
<1>5. GrabberInv(n)
  BY <1>1, <1>2, <1>3, <1>4, SessionsAssumption DEF GrabberInv, GrabberOK, OwnerIsClient
<1> QED BY <1>1, <1>5 DEF n

\* Nothing is connected in the beginning.
LEMMA InitOK == Init => IInv
<1> SUFFICES ASSUME Init PROVE IInv
  OBVIOUS
<1>1. GrabberInv(grabber)
  BY NewGrabberOK DEF Init
<1>2. ASSUME NEW u \in Users
      PROVE  /\ DOMAIN server[u] = {"up", "on", "link", "heartbeat"}
             /\ server[u].link # "up"
             /\ queue[u] = <<>>
  BY DEF Init, NoServer
<1>3. DOMAIN server = Users /\ DOMAIN queue = Users
  BY DEF Init
<1> QED BY <1>1, <1>2, <1>3 DEF IInv, Shape, OwnerTalks, GrabberInv

\* The socket of the receiver is gone and with it whatever used it.
LEMMA LoseReceiverOK ==
    ASSUME Shape, LoseReceiver
    PROVE  /\ DOMAIN server' = Users /\ DOMAIN queue' = Users
           /\ \A u \in Users : /\ DOMAIN server'[u] = {"up", "on", "link", "heartbeat"}
                               /\ server'[u].link # "up"
                               /\ queue'[u] = <<>>
BY DEF LoseReceiver, Shape

\* Where nothing was on the way, nothing stale is.
LEMMA StaleEmpty == Stale(<<>>) = <<>>
BY DEF Stale

\* stop_grabber_client takes the connection away; the messages on the way stay,
\* behind the same receiver.
LEMMA RestartClientOK ==
    ASSUME IInv, NEW u \in Users, NEW on, RestartClient(u, on)
    PROVE  IInv'
<1>1. /\ GrabberInv(grabber')
      /\ grabber'.up = grabber.up
      /\ grabber'.receiver.owner = grabber.receiver.owner
  BY EndpointGoneOK DEF RestartClient, IInv
<1>2. /\ DOMAIN server' = Users /\ DOMAIN queue' = Users
      /\ \A v \in Users \ {u} : server'[v] = server[v] /\ queue'[v] = queue[v]
      /\ server'[u] = [server[u] EXCEPT !.on = on, !.heartbeat = FALSE,
                                        !.link = IF on THEN "down" ELSE "none"]
      /\ queue'[u] = Stale(queue[u])
  BY DEF RestartClient, IInv, Shape
<1>3. DOMAIN server'[u] = {"up", "on", "link", "heartbeat"} /\ server'[u].link # "up"
  BY <1>2 DEF IInv, Shape
<1>4. Shape'
  <2>1. ASSUME NEW v \in Users PROVE DOMAIN server'[v] = {"up", "on", "link", "heartbeat"}
    BY <1>2, <1>3 DEF IInv, Shape
  <2> QED BY <1>2, <2>1 DEF Shape
<1>5. OwnerTalks'
  BY <1>1, <1>2, <1>3, StaleEmpty DEF IInv, OwnerTalks
<1> QED BY <1>1, <1>4, <1>5 DEF IInv

\* A step that leaves connections and messages alone and does not take the
\* receiver away.
LEMMA GrabberStep ==
    ASSUME IInv, GrabberInv(grabber'), UNCHANGED <<server, queue>>,
           grabber'.up = grabber.up,
           grabber'.receiver.owner = grabber.receiver.owner
    PROVE  IInv'
<1>1. Shape'
  BY DEF IInv, Shape, GrabberInv
<1>2. OwnerTalks'
  BY DEF IInv, OwnerTalks
<1> QED BY <1>1, <1>2 DEF IInv

\* The session monitors and what session_monitor_receiver makes of their
\* messages reach the receiver only by way of the dispatcher.
LEMMA MonitorSteps ==
    ASSUME IInv, NEW u \in Users,
           \/ MonitorConnected(u) \/ OnConsoleChanged(u) \/ SendTimer(u)
           \/ MessageFromMonitor(u) \/ MonitorClosed(u) \/ MonitorErased(u)
           \/ MonitorExits(u) \/ MonitorStarts(u)
    PROVE  IInv'
<1> DEFINE OnlyMonitors == /\ DOMAIN grabber' = DOMAIN grabber
                           /\ grabber'.up = grabber.up
                           /\ grabber'.receiver = grabber.receiver
                           /\ grabber'.grabbing = grabber.grabbing
                           /\ grabber'.app = grabber.app
<1>1. UNCHANGED <<server, queue>>
  BY DEF MonitorConnected, OnConsoleChanged, SendTimer, MessageFromMonitor, MonitorClosed,
         MonitorErased, MonitorExits, MonitorStarts
<1>2. OnlyMonitors
  <2>1. CASE MonitorConnected(u) \/ OnConsoleChanged(u) \/ SendTimer(u) \/ MonitorStarts(u)
    BY <2>1 DEF MonitorConnected, OnConsoleChanged, SendTimer, MonitorStarts
  <2>2. CASE MessageFromMonitor(u)
    BY <2>2 DEF MessageFromMonitor, IInv, GrabberInv, GrabberOK
  <2>3. CASE MonitorClosed(u)
    BY <2>3 DEF MonitorClosed, IInv, GrabberInv, GrabberOK
  <2>4. CASE MonitorErased(u)
    BY <2>4 DEF MonitorErased, IInv, GrabberInv, GrabberOK
  <2>5. CASE MonitorExits(u)
    BY <2>5 DEF MonitorExits, IInv, GrabberInv, GrabberOK
  <2> QED BY <2>1, <2>2, <2>3, <2>4, <2>5
<1>3. GrabberInv(grabber')
  BY <1>2 DEF IInv, GrabberInv, GrabberOK, OwnerIsClient
<1> QED BY <1>1, <1>2, <1>3, GrabberStep

\* What the receiver does with a message: it came from the owner.
LEMMA MessageFromServerOK ==
    ASSUME IInv, NEW u \in Users, MessageFromServer(u)
    PROVE  IInv'
<1>1. /\ DOMAIN queue' = Users
      /\ \A v \in Users \ {u} : queue'[v] = queue[v]
      /\ queue[u] # <<>>
      /\ UNCHANGED server
  BY DEF MessageFromServer, IInv, Shape
<1>2. grabber.receiver.owner = u
  BY <1>1 DEF IInv, OwnerTalks
<1>3. /\ GrabberInv(grabber')
      /\ grabber'.up = grabber.up
      /\ grabber'.receiver.owner = grabber.receiver.owner
  <2>1. CASE Head(queue[u]) \in {"connect", "stale_connect"}
    <3>1. PICK state \in {"connecting", "dead"} : ReceiveConnect(u, state)
      BY <2>1 DEF MessageFromServer
    <3> DEFINE client == [user |-> u, state |-> state]
    <3>2. grabber' = [grabber EXCEPT !.receiver.client = client]
      BY <3>1 DEF ReceiveConnect
    <3>3. client \in Client /\ client.user = u
      BY DEF Client
    <3> HIDE DEF client
    <3> QED BY <1>2, <3>2, <3>3, NewClientOK DEF IInv
  <2>2. CASE Head(queue[u]) \notin {"connect", "stale_connect"}
    <3> DEFINE app == Head(queue[u])
    <3>1. grabber' = [grabber EXCEPT !.receiver.app = app,
                                     !.app = IF grabber.grabbing = "none" THEN @ ELSE app]
      BY <2>2 DEF MessageFromServer, ReceiveEnvironment
    <3> HIDE DEF app
    <3>2. /\ DOMAIN grabber' = DOMAIN grabber
          /\ grabber'.up = grabber.up
          /\ grabber'.grabbing = grabber.grabbing
          /\ grabber'.app = IF grabber.grabbing = "none" THEN grabber.app ELSE app
          /\ grabber'.receiver = [grabber.receiver EXCEPT !.app = app]
      BY <3>1 DEF IInv, GrabberInv, GrabberOK
    <3>3. /\ DOMAIN grabber'.receiver = DOMAIN grabber.receiver
          /\ grabber'.receiver.owner = grabber.receiver.owner
          /\ grabber'.receiver.client = grabber.receiver.client
          /\ grabber'.receiver.app = app
      BY <3>2 DEF IInv, GrabberInv, GrabberOK
    <3>4. GrabberInv(grabber')
      BY <3>2, <3>3 DEF IInv, GrabberInv, GrabberOK, OwnerIsClient
    <3> QED BY <3>2, <3>3, <3>4
  <2> QED BY <2>1, <2>2
<1>4. Shape'
  BY <1>1 DEF IInv, Shape
<1>5. OwnerTalks'
  <2>1. grabber.up
    BY DEF MessageFromServer
  <2> QED BY <1>1, <1>2, <1>3, <2>1 DEF IInv, OwnerTalks
<1> QED BY <1>3, <1>4, <1>5 DEF IInv

\* A device_grabber is started for a client, and a client is the owner's.
LEMMA ClientSteps ==
    ASSUME IInv, ClientConnected \/ ClientClosed \/ ClientLost
    PROVE  IInv'
<1>1. CASE ClientConnected
  <2> DEFINE user == grabber.receiver.client.user
             g == StartDeviceGrabber(grabber, user)
  <2>1. /\ grabber.up /\ grabber.receiver.client.state = "connecting"
        /\ grabber' = [g EXCEPT !.receiver.client.state = "connected"]
        /\ server' = [server EXCEPT ![user].heartbeat = TRUE]
        /\ UNCHANGED queue
    BY <1>1 DEF ClientConnected
  <2>2. user \in Users /\ user = grabber.receiver.owner
    BY <2>1 DEF IInv, GrabberInv, OwnerIsClient
  <2>3. GrabberInv(g) /\ g.up = grabber.up /\ g.receiver = grabber.receiver
    BY <2>1, <2>2, StartDeviceGrabberOK DEF IInv
  <2> HIDE DEF g
  <2>4. /\ GrabberInv(grabber')
        /\ grabber'.up = grabber.up
        /\ grabber'.receiver.owner = grabber.receiver.owner
    <3>1. g.receiver.client.user \in Users
      BY <2>2, <2>3
    <3>2. GrabberInv(grabber') /\ grabber'.up = g.up /\ grabber'.receiver.owner = g.receiver.owner
      BY <2>1, <2>3, <3>1, ClientStateOK, ZenonT(40)
    <3> QED BY <2>3, <3>2
  <2> HIDE DEF user
  <2>5. /\ DOMAIN server' = Users
        /\ \A u \in Users \ {user} : server'[u] = server[u]
        /\ server'[user] = [server[user] EXCEPT !.heartbeat = TRUE]
    BY <2>1, <2>2 DEF IInv, Shape
  <2>6. ASSUME NEW u \in Users
        PROVE  /\ DOMAIN server'[u] = {"up", "on", "link", "heartbeat"}
               /\ server'[u].link = server[u].link
    BY <2>5 DEF IInv, Shape
  <2>7. Shape'
    BY <2>1, <2>5, <2>6 DEF IInv, Shape
  <2>8. OwnerTalks'
    BY <2>1, <2>4, <2>6 DEF IInv, OwnerTalks
  <2> QED BY <2>4, <2>7, <2>8 DEF IInv
<1>2. CASE ClientClosed
  <2> DEFINE g == [grabber EXCEPT !.receiver.client = NoClient]
  <2>1. /\ grabber.up /\ UNCHANGED <<server, queue>>
        /\ grabber' = IF SystemFile THEN StartDeviceGrabber(g, "system") ELSE [g EXCEPT !.grabbing = "none"]
    BY <1>2 DEF ClientClosed
  <2>2. NoClient \in Client /\ NoClient.user = Nobody /\ NoClient.state = "none"
    BY DEF NoClient, Client
  <2>3. GrabberInv(g) /\ g.up = grabber.up /\ g.receiver.owner = grabber.receiver.owner
    BY <2>2, NewClientOK, SessionsAssumption DEF IInv
  <2> HIDE DEF g
  <2>4. /\ GrabberInv(grabber')
        /\ grabber'.up = g.up
        /\ grabber'.receiver.owner = g.receiver.owner
    <3>1. CASE SystemFile
      BY <2>1, <2>3, <3>1, StartDeviceGrabberOK, SessionsAssumption
    <3>2. CASE ~SystemFile
      <4>1. grabber' = [g EXCEPT !.grabbing = "none"]
        BY <2>1, <3>2
      <4>2. /\ DOMAIN grabber' = DOMAIN g
            /\ grabber'.up = g.up
            /\ grabber'.receiver = g.receiver
            /\ grabber'.grabbing = "none"
        BY <2>3, <4>1 DEF GrabberInv, GrabberOK
      <4>3. GrabberInv(grabber')
        BY <2>3, <4>2, SessionsAssumption DEF GrabberInv, GrabberOK, OwnerIsClient
      <4> QED BY <4>2, <4>3
    <3> QED BY <3>1, <3>2
  <2> QED BY <2>1, <2>3, <2>4, GrabberStep
<1>3. CASE ClientLost
  <2>1. grabber.receiver.client.user \in Users
    BY <1>3 DEF ClientLost, IInv, GrabberInv, OwnerIsClient
  <2>2. /\ GrabberInv(grabber')
        /\ grabber'.up = grabber.up
        /\ grabber'.receiver.owner = grabber.receiver.owner
    BY <1>3, <2>1, ClientStateOK DEF ClientLost, IInv
  <2>3. UNCHANGED <<server, queue>>
    BY <1>3 DEF ClientLost
  <2> QED BY <2>2, <2>3, GrabberStep
<1> QED BY <1>1, <1>2, <1>3

\* Only the owner connects; what is sent later goes over its connection.
LEMMA ServerSteps ==
    ASSUME IInv, NEW u \in Users,
           \/ ServerOnConsoleChanged(u) \/ GrabberClientConnected(u) \/ GrabberClientClosed(u)
           \/ HeartbeatDeadlineExceeded(u) \/ ServerStarts(u) \/ ServerExits(u)
           \/ \E app \in Apps : FrontmostApplicationChanged(u, app)
    PROVE  IInv'
<1>1. CASE ServerOnConsoleChanged(u) \/ HeartbeatDeadlineExceeded(u)
  BY <1>1, RestartClientOK DEF ServerOnConsoleChanged, HeartbeatDeadlineExceeded
<1>2. CASE GrabberClientConnected(u)
  <2>1. /\ grabber.up /\ grabber.receiver.owner = u
        /\ DOMAIN server' = Users /\ \A v \in Users \ {u} : server'[v] = server[v]
        /\ DOMAIN queue' = Users /\ \A v \in Users \ {u} : queue'[v] = queue[v]
        /\ server'[u] = [server[u] EXCEPT !.link = "up"]
        /\ UNCHANGED grabber
    BY <1>2 DEF GrabberClientConnected, IInv, Shape
  <2>2. ASSUME NEW v \in Users PROVE DOMAIN server'[v] = {"up", "on", "link", "heartbeat"}
    BY <2>1 DEF IInv, Shape
  <2>3. OwnerTalks'
    BY <2>1 DEF IInv, OwnerTalks
  <2> QED BY <2>1, <2>2, <2>3 DEF IInv, Shape
<1>3. CASE GrabberClientClosed(u)
  <2>1. /\ DOMAIN server' = Users /\ \A v \in Users \ {u} : server'[v] = server[v]
        /\ server'[u] = [server[u] EXCEPT !.link = "down"]
        /\ UNCHANGED <<grabber, queue>>
    BY <1>3 DEF GrabberClientClosed, IInv, Shape
  <2>2. ASSUME NEW v \in Users
        PROVE  /\ DOMAIN server'[v] = {"up", "on", "link", "heartbeat"}
               /\ server'[v].link = "up" => server[v].link = "up"
    BY <2>1 DEF IInv, Shape
  <2>3. OwnerTalks'
    BY <2>1, <2>2 DEF IInv, OwnerTalks
  <2> QED BY <2>1, <2>2, <2>3 DEF IInv, Shape
<1>4. CASE ServerStarts(u)
  <2>1. /\ DOMAIN server' = Users /\ \A v \in Users \ {u} : server'[v] = server[v]
        /\ server'[u] = [server[u] EXCEPT !.up = TRUE]
        /\ UNCHANGED <<grabber, queue>>
    BY <1>4 DEF ServerStarts, IInv, Shape
  <2>2. ASSUME NEW v \in Users
        PROVE  /\ DOMAIN server'[v] = {"up", "on", "link", "heartbeat"}
               /\ server'[v].link = server[v].link
    BY <2>1 DEF IInv, Shape
  <2>3. OwnerTalks'
    BY <2>1, <2>2 DEF IInv, OwnerTalks
  <2> QED BY <2>1, <2>2, <2>3 DEF IInv, Shape
<1>5. CASE ServerExits(u)
  <2>1. /\ GrabberInv(grabber')
        /\ grabber'.up = grabber.up
        /\ grabber'.receiver.owner = grabber.receiver.owner
    BY <1>5, EndpointGoneOK DEF ServerExits, IInv
  <2>2. /\ DOMAIN server' = Users /\ \A v \in Users \ {u} : server'[v] = server[v]
        /\ DOMAIN queue' = Users /\ \A v \in Users \ {u} : queue'[v] = queue[v]
        /\ server'[u] = NoServer
        /\ queue'[u] = Stale(queue[u])
    BY <1>5 DEF ServerExits, IInv, Shape
  <2>3. ASSUME NEW v \in Users
        PROVE  /\ DOMAIN server'[v] = {"up", "on", "link", "heartbeat"}
               /\ server'[v].link = "up" => server[v].link = "up"
    BY <2>2 DEF IInv, Shape, NoServer
  <2>4. OwnerTalks'
    BY <2>1, <2>2, <2>3, StaleEmpty DEF IInv, OwnerTalks
  <2> QED BY <2>1, <2>2, <2>3, <2>4 DEF IInv, Shape
<1>6. CASE \E app \in Apps : FrontmostApplicationChanged(u, app)
  <2>1. PICK app \in Apps : FrontmostApplicationChanged(u, app)
    BY <1>6
  <2>2. /\ DOMAIN queue' = Users
        /\ \A v \in Users : queue'[v] = queue[v] \/ (v = u /\ server[u].link = "up")
        /\ UNCHANGED <<grabber, server>>
    <3>1. CASE server[u].link = "up"
      <4> DEFINE sent == queue[u] \o Report(app)
      <4>1. queue' = [queue EXCEPT ![u] = sent] /\ UNCHANGED <<grabber, server>>
        BY <2>1, <3>1 DEF FrontmostApplicationChanged
      <4> HIDE DEF sent
      <4> QED BY <3>1, <4>1 DEF IInv, Shape
    <3>2. CASE server[u].link # "up"
      <4>1. UNCHANGED <<queue, grabber, server>>
        BY <2>1, <3>2 DEF FrontmostApplicationChanged
      <4> QED BY <4>1 DEF IInv, Shape
    <3> QED BY <3>1, <3>2
  <2>3. OwnerTalks'
    BY <2>2 DEF IInv, OwnerTalks
  <2> QED BY <2>2, <2>3 DEF IInv, Shape
<1> QED BY <1>1, <1>2, <1>3, <1>4, <1>5, <1>6

\* The receiver, or the whole grabber, is replaced.
LEMMA ReceiverSteps ==
    ASSUME IInv, ConsoleUserIdChanged \/ GrabberExits \/ GrabberStarts
    PROVE  IInv'
<1>1. CASE ConsoleUserIdChanged
  <2>1. GrabberInv(grabber')
    <3> DEFINE uid == IF Head(signals) = Current THEN grabber.current ELSE Head(signals)
    <3>1. grabber' = StartReceiver(grabber, uid)
      BY <1>1 DEF ConsoleUserIdChanged
    <3> HIDE DEF uid
    <3> QED BY <3>1, StartReceiverOK DEF IInv
  <2>2. LoseReceiver
    BY <1>1 DEF ConsoleUserIdChanged
  <2> QED BY <2>1, <2>2, LoseReceiverOK DEF IInv, Shape, OwnerTalks
<1>2. CASE GrabberExits
  <2>1. LoseReceiver /\ grabber' = [grabber EXCEPT !.up = FALSE, !.grabbing = "none"]
    BY <1>2 DEF GrabberExits
  <2>2. /\ DOMAIN grabber' = DOMAIN grabber
        /\ grabber'.receiver = grabber.receiver
        /\ grabber'.grabbing = "none"
    BY <2>1 DEF IInv, GrabberInv, GrabberOK
  <2>3. GrabberInv(grabber')
    BY <2>2, SessionsAssumption DEF IInv, GrabberInv, GrabberOK, OwnerIsClient
  <2> QED BY <2>1, <2>3, LoseReceiverOK DEF IInv, Shape, OwnerTalks
<1>3. CASE GrabberStarts
  <2>1. ~grabber.up /\ grabber' = NewGrabber /\ UNCHANGED <<server, queue>>
    BY <1>3 DEF GrabberStarts
  <2>2. OwnerTalks'
    BY <2>1 DEF IInv, OwnerTalks
  <2>3. GrabberInv(grabber')
    BY <2>1, NewGrabberOK
  <2> QED BY <2>1, <2>2, <2>3 DEF IInv, Shape
<1> QED BY <1>1, <1>2, <1>3

\* Every step keeps the inductive invariant.
LEMMA NextOK == IInv /\ [Next]_vars => IInv'
<1> SUFFICES ASSUME IInv, [Next]_vars PROVE IInv'
  OBVIOUS
<1>1. CASE Step
  BY <1>1, MonitorSteps, MessageFromServerOK, ServerSteps, ReceiverSteps, ClientSteps DEF Step
<1>2. CASE \E u \in Users \cup {Nobody} : SwitchConsole(u)
  <2>1. UNCHANGED <<grabber, server, queue>>
    BY <1>2 DEF SwitchConsole
  <2> QED BY <2>1, GrabberStep DEF IInv
<1>3. CASE \E u \in Users : MonitorExits(u) \/ ServerExits(u)
  BY <1>3, MonitorSteps, ServerSteps
<1>4. CASE \E u \in Users, app \in Apps : FrontmostApplicationChanged(u, app)
  BY <1>4, ServerSteps
<1>5. CASE GrabberExits \/ ClientLost
  BY <1>5, ReceiverSteps, ClientSteps
<1>6. CASE UNCHANGED vars
  <2>1. UNCHANGED <<grabber, server, queue>>
    BY <1>6 DEF vars
  <2> QED BY <2>1, GrabberStep DEF IInv
<1> QED BY <1>1, <1>2, <1>3, <1>4, <1>5, <1>6 DEF Next

\* The inductive invariant holds of the specification.
THEOREM Inductive == Spec => []IInv
BY InitOK, NextOK, PTL DEF Spec

-----------------------------------------------------------------------------
(* However users switch, processes exit and messages are late, a user's    *)
(* configuration is in use only behind the socket that belongs to that     *)
(* user (receiver: start_device_grabber after connect_console_user_server).*)
THEOREM OwnerTheorem == Spec => []OnlyTheOwnersConfiguration
<1>1. IInv => OnlyTheOwnersConfiguration
  BY DEF IInv, GrabberInv, OnlyTheOwnersConfiguration
<1> QED BY <1>1, Inductive, PTL

(* Whatever order reports, connections and restarts come in, the           *)
(* device_grabber in use knows the application that the receiver knows     *)
(* (receiver: start_device_grabber, frontmost_application_changed).        *)
THEOREM EnvironmentTheorem == Spec => []DeviceGrabberKnowsEnvironment
<1>1. IInv => DeviceGrabberKnowsEnvironment
  BY DEF IInv, GrabberInv, DeviceGrabberKnowsEnvironment
<1> QED BY <1>1, Inductive, PTL

=============================================================================
