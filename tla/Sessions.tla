-------------------------------- MODULE Sessions --------------------------------
(***************************************************************************)
(* Which configuration karabiner_grabber works with while users log in,    *)
(* switch and leave.  Every user session runs karabiner_session_monitor,   *)
(* which tells the grabber whether its user is on the console, and         *)
(* karabiner_console_user_server, which connects to the socket the grabber *)
(* opens for the console user, hands over the path of the configuration    *)
(* and reports the frontmost application.  The processes share nothing but *)
(* datagram sockets; each may exit at any time and is started again.       *)
(***************************************************************************)
EXTENDS Naturals, Sequences

CONSTANTS
    Users,        \* the users that are logged in
    FirstUser,    \* the one who is on the console in the beginning
    Nobody,       \* no user (uid 0 owns the socket)
    SystemFile,   \* whether the system-wide configuration file exists
    Apps,         \* frontmost applications
    EventViewer,  \* the one of them that is never reported
    NoApp,        \* what a new receiver knows of the frontmost application
    MaxEvents     \* bound on console switches, exits and application changes

ASSUME SessionsAssumption ==
    /\ Nobody \notin Users
    /\ {"system", "none"} \cap Users = {}   \* what is in use when it is no user's
    /\ NoApp \notin Apps /\ EventViewer \in Apps
    /\ FirstUser \in Users
    /\ SystemFile \in BOOLEAN
    /\ MaxEvents \in Nat

VARIABLES
    console, frontmost, events,  \* the outside world, and how often it changed
    sm,        \* the session monitor of each user
    smQueue,   \* its messages on the way to session_monitor_receiver
    grabber,   \* components_manager, session_monitor_receiver and receiver
    signals,   \* current_console_user_id_changed calls in the dispatcher
    server,    \* the console_user_server of each user
    queue      \* its messages on the way to the receiver

world == <<console, frontmost, events>>
vars == <<world, sm, smQueue, grabber, signals, server, queue>>

\* Something happens outside the processes.
Event == events < MaxEvents /\ events' = events + 1

\* A signal whose argument is read when it is delivered
Current == "current"

NoClient == [user |-> Nobody, state |-> "none"]

\* A receiver that was just made by start_receiver; other processes do not know it.
Receiver(uid) ==
    [owner |-> uid, client |-> NoClient, app |-> NoApp]

NoServer == [up |-> FALSE, on |-> FALSE, link |-> "none", heartbeat |-> FALSE]

SystemConfiguration == IF SystemFile THEN "system" ELSE "none"

-----------------------------------------------------------------------------
(* karabiner_session_monitor                                               *)

\* async_console_user_id_changed: without a connection nothing is sent.
SendToReceiver(u, on) ==
    smQueue' = IF sm[u].link THEN [smQueue EXCEPT ![u] = Append(@, on)] ELSE smQueue

\* connected
MonitorConnected(u) ==
    /\ sm[u].up /\ ~sm[u].link /\ grabber.up
    /\ sm' = [sm EXCEPT ![u].link = TRUE]
    /\ smQueue' = [smQueue EXCEPT ![u] = Append(@, sm[u].on)]
    /\ UNCHANGED <<world, grabber, signals, server, queue>>

\* on_console_changed
OnConsoleChanged(u) ==
    /\ sm[u].up /\ sm[u].on # (console = u)
    /\ sm' = [sm EXCEPT ![u].on = (console = u)]
    /\ SendToReceiver(u, console = u)
    /\ UNCHANGED <<world, grabber, signals, server, queue>>

\* Mutant: only changes are sent.
SendTimerNever(u) ==
    /\ FALSE
    /\ smQueue' = smQueue
    /\ UNCHANGED <<world, sm, grabber, signals, server, queue>>

\* send_timer_, when the message tells the receiver something it does not know; it
\* is ignored otherwise.  The period is 3 seconds: what was sent before has been
\* dealt with.
SendTimer(u) ==
    /\ sm[u].up /\ sm[u].link /\ smQueue[u] = <<>> /\ signals = <<>>
    /\ sm[u].on # (grabber.current = u) \/ grabber.monitors[u] = "none"
    /\ SendToReceiver(u, sm[u].on)
    /\ UNCHANGED <<world, sm, grabber, signals, server, queue>>

-----------------------------------------------------------------------------
(* karabiner_grabber: session_monitor_receiver                             *)

\* The console user after a console_user_id_changed message
UserAfter(cur, u, on) == IF on THEN u ELSE IF cur = u THEN Nobody ELSE cur

\* received console_user_id_changed
MessageFromMonitor(u) ==
    /\ grabber.up /\ smQueue[u] # <<>>
    /\ smQueue' = [smQueue EXCEPT ![u] = Tail(@)]
    /\ LET new == UserAfter(grabber.current, u, Head(smQueue[u]))
       IN  /\ signals' = IF new = grabber.current THEN signals ELSE Append(signals, new)
           /\ grabber' = [grabber EXCEPT !.current = new,
                                         !.monitors[u] = IF @ = "none" THEN "live" ELSE @]
    /\ UNCHANGED <<world, sm, server, queue>>

\* closed of the client that watches a session monitor which is gone: its user
\* is no longer taken to be on the console.
MonitorClosed(u) ==
    /\ grabber.up /\ grabber.monitors[u] = "dead"
    /\ grabber' = [grabber EXCEPT !.monitors[u] = "erasing",
                                  !.current = IF @ = u THEN Nobody ELSE @]
    /\ signals' = IF grabber.current = u THEN Append(signals, Current) ELSE signals
    /\ UNCHANGED <<world, sm, smQueue, server, queue>>

\* The enqueued session_monitor_clients_.erase
MonitorErased(u) ==
    /\ grabber.up /\ grabber.monitors[u] = "erasing"
    /\ grabber' = [grabber EXCEPT !.monitors[u] = "none"]
    /\ UNCHANGED <<world, sm, smQueue, signals, server, queue>>

-----------------------------------------------------------------------------
(* karabiner_grabber: components_manager and receiver                      *)

\* The socket of the receiver is gone: connections to it and messages in it are lost.
LoseReceiver ==
    /\ server' = [u \in Users |-> [server[u] EXCEPT !.link = IF @ = "up" THEN "lost" ELSE @]]
    /\ queue' = [u \in Users |-> <<>>]

\* Mutant: the device_grabber of the old receiver goes on.
StartReceiverKeepsGrabbing(g, uid) ==
    [g EXCEPT !.receiver = Receiver(uid), !.app = NoApp]

\* start_receiver: the old receiver's destructor stops its device_grabber.
StartReceiver(g, uid) ==
    [g EXCEPT !.receiver = Receiver(uid), !.grabbing = SystemConfiguration, !.app = NoApp]

\* current_console_user_id_changed
ConsoleUserIdChanged ==
    /\ grabber.up /\ signals # <<>>
    /\ signals' = Tail(signals)
    /\ grabber' = StartReceiver(grabber, IF Head(signals) = Current THEN grabber.current ELSE Head(signals))
    /\ LoseReceiver
    /\ UNCHANGED <<world, sm, smQueue>>

\* Mutant: a new device_grabber is not told what the receiver knows.
StartDeviceGrabberUntold(g, configuration) ==
    [g EXCEPT !.grabbing = configuration, !.app = NoApp]

\* stop_device_grabber, start_device_grabber
StartDeviceGrabber(g, configuration) ==
    [g EXCEPT !.grabbing = configuration, !.app = g.receiver.app]

\* received connect_console_user_server: the old client is dropped, the
\* device_grabber goes on until the new one is connected or has failed.
ReceiveConnect(u, state) ==
    grabber' = [grabber EXCEPT !.receiver.client = [user |-> u, state |-> state]]

\* received frontmost_application_changed (system_preferences_updated and
\* input_source_changed are handled the same way)
ReceiveEnvironment(app) ==
    grabber' = [grabber EXCEPT !.receiver.app = app,
                               !.app = IF grabber.grabbing = "none" THEN @ ELSE app]

MessageFromServer(u) ==
    /\ grabber.up /\ queue[u] # <<>>
    /\ queue' = [queue EXCEPT ![u] = Tail(@)]
    /\ CASE Head(queue[u]) = "connect" -> ReceiveConnect(u, "connecting")
         [] Head(queue[u]) = "stale_connect" -> ReceiveConnect(u, "dead")
         [] OTHER -> ReceiveEnvironment(Head(queue[u]))
    /\ UNCHANGED <<world, sm, smQueue, signals, server>>

\* console_user_server_client: connected.  From now on heartbeats are sent.
ClientConnected ==
    LET client == grabber.receiver.client
    IN  /\ grabber.up /\ client.state = "connecting"
        /\ grabber' = [StartDeviceGrabber(grabber, client.user) EXCEPT !.receiver.client.state = "connected"]
        /\ server' = [server EXCEPT ![client.user].heartbeat = TRUE]
        /\ UNCHANGED <<world, sm, smQueue, signals, queue>>

\* console_user_server_client: connect_failed or closed, because the other end is gone.
ClientClosed ==
    /\ grabber.up /\ grabber.receiver.client.state = "dead"
    /\ LET g == [grabber EXCEPT !.receiver.client = NoClient]
       IN  grabber' = IF SystemFile THEN StartDeviceGrabber(g, "system") ELSE [g EXCEPT !.grabbing = "none"]
    /\ UNCHANGED <<world, sm, smQueue, signals, server, queue>>

-----------------------------------------------------------------------------
(* karabiner_console_user_server                                           *)

\* The client socket of u's grabber_client is removed.
EndpointGone(g, u) ==
    IF g.receiver.client.user = u THEN [g EXCEPT !.receiver.client.state = "dead"] ELSE g

\* What u has sent stays in the receiver's socket, but the client socket that a
\* connect_console_user_server names is gone.
Stale(messages) ==
    [i \in DOMAIN messages |-> IF messages[i] = "connect" THEN "stale_connect" ELSE messages[i]]

\* stop_grabber_client; start_grabber_client
RestartClient(u, on) ==
    /\ server' = [server EXCEPT ![u] = [@ EXCEPT !.on = on, !.heartbeat = FALSE,
                                                 !.link = IF on THEN "down" ELSE "none"]]
    /\ grabber' = EndpointGone(grabber, u)
    /\ queue' = [queue EXCEPT ![u] = Stale(@)]

\* on_console_changed
ServerOnConsoleChanged(u) ==
    /\ server[u].up /\ server[u].on # (console = u)
    /\ RestartClient(u, console = u)
    /\ UNCHANGED <<world, sm, smQueue, signals>>

\* What is sent to the grabber when app comes to the front: Karabiner-EventViewer
\* is left out, so that it shows what happens in the application before it.
Report(app) == IF app = EventViewer THEN <<>> ELSE <<app>>

\* connected: only the owner may connect to the socket of the receiver.
GrabberClientConnected(u) ==
    /\ server[u].up /\ server[u].link = "down"
    /\ grabber.up /\ grabber.receiver.owner = u
    /\ server' = [server EXCEPT ![u].link = "up"]
    /\ queue' = [queue EXCEPT ![u] = @ \o <<"connect">> \o Report(frontmost[u])]
    /\ UNCHANGED <<world, sm, smQueue, grabber, signals>>

\* closed: the reconnect timer of the client goes on trying.
GrabberClientClosed(u) ==
    /\ server[u].up /\ server[u].link = "lost"
    /\ server' = [server EXCEPT ![u].link = "down"]
    /\ UNCHANGED <<world, sm, smQueue, grabber, signals, queue>>

\* next_heartbeat_deadline_exceeded: the receiver has stopped sending heartbeats.
HeartbeatDeadlineExceeded(u) ==
    /\ server[u].up /\ server[u].heartbeat
    /\ ~grabber.up \/ grabber.receiver.client # [user |-> u, state |-> "connected"]
    /\ RestartClient(u, server[u].on)
    /\ UNCHANGED <<world, sm, smQueue, signals>>

\* frontmost_application_changed
FrontmostApplicationChanged(u, app) ==
    /\ Event /\ u = console /\ app # frontmost[u]
    /\ frontmost' = [frontmost EXCEPT ![u] = app]
    /\ queue' = IF server[u].link = "up" THEN [queue EXCEPT ![u] = @ \o Report(app)] ELSE queue
    /\ UNCHANGED <<console, sm, smQueue, grabber, signals, server>>

-----------------------------------------------------------------------------
(* The outside world: fast user switching, exits (a crash, or              *)
(* components_manager_killer after an update of the version file) and      *)
(* launchd, which starts the processes again.                              *)
SwitchConsole(u) ==
    /\ Event /\ console # u
    /\ console' = u
    /\ UNCHANGED <<frontmost, sm, smQueue, grabber, signals, server, queue>>

Exit == Event /\ UNCHANGED <<console, frontmost>>

MonitorExits(u) ==
    /\ Exit /\ sm[u].up
    /\ sm' = [sm EXCEPT ![u] = [up |-> FALSE, on |-> FALSE, link |-> FALSE]]
    /\ grabber' = [grabber EXCEPT !.monitors[u] = IF @ = "live" THEN "dead" ELSE @]
    /\ UNCHANGED <<smQueue, signals, server, queue>>

MonitorStarts(u) ==
    /\ ~sm[u].up
    /\ sm' = [sm EXCEPT ![u].up = TRUE]
    /\ UNCHANGED <<world, smQueue, grabber, signals, server, queue>>

GrabberExits ==
    /\ Exit /\ grabber.up
    /\ grabber' = [grabber EXCEPT !.up = FALSE, !.grabbing = "none"]
    /\ signals' = <<>>
    /\ sm' = [u \in Users |-> [sm[u] EXCEPT !.link = FALSE]]
    /\ smQueue' = [u \in Users |-> <<>>]
    /\ LoseReceiver

NewGrabber ==
    [up |-> TRUE, current |-> Nobody, monitors |-> [u \in Users |-> "none"],
     receiver |-> Receiver(Nobody), grabbing |-> SystemConfiguration, app |-> NoApp]

GrabberStarts ==
    /\ ~grabber.up
    /\ grabber' = NewGrabber
    /\ UNCHANGED <<world, sm, smQueue, signals, server, queue>>

ServerExits(u) ==
    /\ Exit /\ server[u].up
    /\ server' = [server EXCEPT ![u] = NoServer]
    /\ grabber' = EndpointGone(grabber, u)
    /\ queue' = [queue EXCEPT ![u] = Stale(@)]
    /\ UNCHANGED <<sm, smQueue, signals>>

ServerStarts(u) ==
    /\ ~server[u].up
    /\ server' = [server EXCEPT ![u].up = TRUE]
    /\ UNCHANGED <<world, sm, smQueue, grabber, signals, queue>>

\* The connection of console_user_server_client breaks although both ends are there.
ClientLost ==
    /\ Exit /\ grabber.up /\ grabber.receiver.client.state = "connected"
    /\ grabber' = [grabber EXCEPT !.receiver.client.state = "dead"]
    /\ UNCHANGED <<sm, smQueue, signals, server, queue>>

\* The users' processes know who is on the console; the grabber has just started.
Init ==
    /\ console = FirstUser
    /\ frontmost = [u \in Users |-> CHOOSE app \in Apps : app # EventViewer]
    /\ events = 0
    /\ sm = [u \in Users |-> [up |-> TRUE, on |-> u = console, link |-> FALSE]]
    /\ smQueue = [u \in Users |-> <<>>]
    /\ grabber = NewGrabber
    /\ signals = <<>>
    /\ server = [u \in Users |-> [NoServer EXCEPT !.up = TRUE, !.on = (u = console),
                                                 !.link = IF u = console THEN "down" ELSE "none"]]
    /\ queue = [u \in Users |-> <<>>]

\* What the processes do by themselves
Step ==
    \/ \E u \in Users :
        \/ MonitorConnected(u) \/ OnConsoleChanged(u) \/ SendTimer(u)
        \/ MessageFromMonitor(u) \/ MonitorClosed(u) \/ MonitorErased(u)
        \/ MessageFromServer(u)
        \/ ServerOnConsoleChanged(u) \/ GrabberClientConnected(u) \/ GrabberClientClosed(u)
        \/ HeartbeatDeadlineExceeded(u)
        \/ MonitorStarts(u) \/ ServerStarts(u)
    \/ ConsoleUserIdChanged \/ ClientConnected \/ ClientClosed \/ GrabberStarts

Next ==
    \/ Step
    \/ \E u \in Users \cup {Nobody} : SwitchConsole(u)
    \/ \E u \in Users : MonitorExits(u) \/ ServerExits(u)
    \/ \E u \in Users, app \in Apps : FrontmostApplicationChanged(u, app)
    \/ GrabberExits \/ ClientLost

Spec == Init /\ [][Next]_vars

\* Timers, reconnects and the dispatcher keep running in every process, and
\* launchd starts what has exited.
Fairness ==
    /\ \A u \in Users :
        /\ WF_vars(MonitorConnected(u)) /\ WF_vars(OnConsoleChanged(u)) /\ WF_vars(SendTimer(u))
        /\ WF_vars(MessageFromMonitor(u)) /\ WF_vars(MonitorClosed(u)) /\ WF_vars(MonitorErased(u))
        /\ WF_vars(MessageFromServer(u))
        /\ WF_vars(ServerOnConsoleChanged(u)) /\ WF_vars(GrabberClientConnected(u))
        /\ WF_vars(GrabberClientClosed(u)) /\ WF_vars(HeartbeatDeadlineExceeded(u))
        /\ WF_vars(MonitorStarts(u)) /\ WF_vars(ServerStarts(u))
    /\ WF_vars(ConsoleUserIdChanged) /\ WF_vars(ClientConnected)
    /\ WF_vars(ClientClosed) /\ WF_vars(GrabberStarts)

FairSpec == Spec /\ Fairness

-----------------------------------------------------------------------------
(* A user's configuration is in use only behind the socket that belongs to *)
(* that user: once the grabber has acted on the news that the console      *)
(* changed hands, nothing of the former user is applied, whatever messages *)
(* of that user's processes are still on the way.                          *)
OnlyTheOwnersConfiguration ==
    grabber.grabbing \in Users => grabber.up /\ grabber.receiver.owner = grabber.grabbing

(* A device_grabber knows the application the receiver was last told of,   *)
(* however often it is stopped and started while reports arrive: one that  *)
(* came while there was no device_grabber is handed to the next one.       *)
DeviceGrabberKnowsEnvironment ==
    grabber.grabbing # "none" => grabber.app = grabber.receiver.app

(* However users switch and processes exit, the grabber ends up with the   *)
(* configuration of the user who stays on the console, or, when nobody     *)
(* does, with the system-wide one if it exists ("`karabiner_grabber` will  *)
(* not modify the input events until it receives a connection from         *)
(* `karabiner_console_user_server` (unless the system default              *)
(* configuration is enabled)").                                            *)
GrabberFollowsConsole ==
    <>[](grabber.grabbing = IF console = Nobody THEN SystemConfiguration ELSE console)

(* The conditions of the manipulators end up being tested against the      *)
(* application that is really in front (but never Karabiner-EventViewer,   *)
(* which is not reported): reports that arrive before the device_grabber   *)
(* exists, or while a connection is replaced, are not lost for good.       *)
FrontmostApplicationKnown ==
    <>[](\A u \in Users : grabber.grabbing = u /\ frontmost[u] # EventViewer
                              => grabber.app = frontmost[u])

=============================================================================
