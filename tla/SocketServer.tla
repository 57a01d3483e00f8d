---------------------------- MODULE SocketServer ----------------------------
(***************************************************************************)
(* network/SocketServer: the connection to the UI, from the constructor to *)
(* the end of the process.  Three actors interleave:                       *)
(*   - the engine thread (main.cpp): constructs the server, then in every  *)
(*     tick polls the mailbox and sends the game's state, and finally runs *)
(*     stop() when socketServer goes out of scope;                         *)
(*   - the listener thread (listenLoop): sets the socket up, accepts one   *)
(*     connection and stores the messages it receives in the mailbox;      *)
(*   - the player's UI, which connects, sends actions and quits, or not.   *)
(* The sockets are those of a POSIX system, the #else branches of the      *)
(* code: closing a descriptor does not wake a thread that is blocked in a  *)
(* call on it, and sending to a connection the other end has left raises   *)
(* SIGPIPE.  A message is a number, in the order the UI sends them.        *)
(* clientFd is written and read by two threads without synchronisation: a  *)
(* data race, modelled as a write that the engine thread sees some time    *)
(* later, at the latest when the listener has released the lock.           *)
(***************************************************************************)
EXTENDS Integers, Sequences

CONSTANTS
    SigPipeKills,       \* SIGPIPE has its default effect on the process
    MaxMessages,        \* bound of the model: messages the UI sends
    MaxConnections      \* bound of the model: connections the UI makes

ASSUME SigPipeAssumption == SigPipeKills \in BOOLEAN
ASSUME SocketBoundsAssumption == MaxMessages \in Nat /\ MaxConnections \in Nat

VARIABLES
    enginePc,
    listenerPc,
    startupPromise,     \* "unset", "ready" or "failed"
    running,
    serverFd,           \* "invalid", "open" or "closed"
    clientFd,           \* the connection accepted, 0 for INVALID_SOCKET
    clientVisible,      \* the engine thread sees that clientFd has been set
    clientClosed,       \* stop() has closed clientFd
    received,           \* the message between ParseFromString and the lock
    pendingAction,      \* the mailbox, 0 when it is empty
    polled,             \* every message pollAction has returned
    connections,        \* in the order the UI made them
    sent                \* number of messages the UI has sent

engineVars == <<enginePc, polled>>
listenerVars == <<listenerPc, startupPromise, received>>
clientVars == <<clientFd, clientVisible, clientClosed>>
serverVars == <<running, serverFd, clientVars, pendingAction>>
uiVars == <<connections, sent>>
socketVars == <<engineVars, listenerVars, serverVars, uiVars>>

NewConnection == [ui |-> "open", reset |-> FALSE, inbox |-> << >>]

Over == {"exited", "terminated", "killed"}

-----------------------------------------------------------------------------
SocketInit ==
    /\ enginePc = "construct" /\ polled = << >>
    /\ listenerPc = "none" /\ startupPromise = "unset" /\ received = 0
    /\ running = TRUE /\ serverFd = "invalid" /\ clientFd = 0
    /\ clientVisible = FALSE /\ clientClosed = FALSE
    /\ pendingAction = 0
    /\ connections = << >> /\ sent = 0

(* The engine thread.  The constructor starts the listener and waits for it. *)
StartListener ==
    /\ enginePc = "construct"
    /\ enginePc' = "await" /\ listenerPc' = "socket"
    /\ UNCHANGED <<polled, startupPromise, received, serverVars, uiVars>>

ConstructorReturns ==
    /\ enginePc = "await" /\ startupPromise = "ready"
    /\ enginePc' = "poll"
    /\ UNCHANGED <<polled, listenerVars, serverVars, uiVars>>

(* get() rethrows, and unwinding the constructor destroys listenerThread,    *)
(* which nobody has joined: std::terminate.                                  *)
ConstructorThrows ==
    /\ enginePc = "await" /\ startupPromise = "failed"
    /\ enginePc' = "terminated"
    /\ UNCHANGED <<polled, listenerVars, serverVars, uiVars>>

(* Mutation: the mailbox is not emptied. *)
PollKeepsAction ==
    /\ enginePc = "poll"
    /\ enginePc' = "send"
    /\ polled' = IF pendingAction = 0 THEN polled ELSE Append(polled, pendingAction)
    /\ UNCHANGED <<listenerVars, serverVars, uiVars>>

PollAction ==
    /\ enginePc = "poll"
    /\ enginePc' = "send"
    /\ polled' = IF pendingAction = 0 THEN polled ELSE Append(polled, pendingAction)
    /\ pendingAction' = 0
    /\ UNCHANGED <<listenerVars, running, serverFd, clientVars, uiVars>>

(* What the engine thread reads when it reads clientFd. *)
SeenFd == IF clientVisible THEN clientFd ELSE 0

(* sendGameState and sendBytes.  Nothing happens without a connection; one   *)
(* the UI has left answers the first send with a reset, and a send after     *)
(* that, which may be the second one of the same call, raises SIGPIPE.       *)
Deliver ==
    /\ enginePc' = "poll"
    /\ UNCHANGED connections

SendToNobody ==
    /\ SeenFd # 0 /\ connections[clientFd].ui = "closed"
    /\ connections' = [connections EXCEPT ![clientFd].reset = TRUE]
    /\ \/ enginePc' = "poll"
       \/ SigPipeKills /\ enginePc' = "killed"

SendAfterReset ==
    /\ connections[clientFd].reset
    /\ enginePc' = IF SigPipeKills THEN "killed" ELSE "poll"
    /\ UNCHANGED connections

(* Mutation: the action polled before is discarded only now. *)
SendGameStateResets ==
    /\ enginePc = "send"
    /\ Deliver
    /\ pendingAction' = 0
    /\ UNCHANGED <<polled, listenerVars, running, serverFd, clientVars, sent>>

SendGameState ==
    /\ enginePc = "send"
    /\ IF SeenFd # 0 /\ connections[clientFd].ui = "closed"
       THEN IF connections[clientFd].reset THEN SendAfterReset ELSE SendToNobody
       ELSE Deliver
    /\ UNCHANGED <<polled, listenerVars, serverVars, sent>>

(* The end of main: the game is over, the save could not be loaded, or an    *)
(* exception left the loop.                                                  *)
LeaveMain ==
    /\ enginePc = "poll"
    /\ enginePc' = "stop"
    /\ UNCHANGED <<polled, listenerVars, serverVars, uiVars>>

(* stop(), called by the destructor. *)
StopRunning ==
    /\ enginePc = "stop"
    /\ running' = FALSE /\ enginePc' = "closeClient"
    /\ UNCHANGED <<polled, listenerVars, serverFd, clientVars, pendingAction, uiVars>>

CloseClient ==
    /\ enginePc = "closeClient"
    /\ clientClosed' = (SeenFd # 0) /\ enginePc' = "closeServer"
    /\ UNCHANGED <<polled, listenerVars, running, serverFd, clientFd, clientVisible,
                   pendingAction, uiVars>>

CloseServer ==
    /\ enginePc = "closeServer"
    /\ serverFd' = "closed" /\ enginePc' = "join"
    /\ UNCHANGED <<polled, listenerVars, running, clientVars, pendingAction, uiVars>>

Join ==
    /\ enginePc = "join" /\ listenerPc = "ended"
    /\ enginePc' = "exited"
    /\ UNCHANGED <<polled, listenerVars, serverVars, uiVars>>

EngineStep ==
    \/ StartListener
    \/ ConstructorReturns
    \/ ConstructorThrows
    \/ PollAction
    \/ SendGameState
    \/ StopRunning
    \/ CloseClient
    \/ CloseServer
    \/ Join

-----------------------------------------------------------------------------
(* The listener thread, while the process lives. *)
ListenerAt(l) == listenerPc = l /\ enginePc \notin Over

CreateSocket ==
    /\ ListenerAt("socket")
    /\ serverFd' = "open" /\ listenerPc' = "bind"
    /\ UNCHANGED <<engineVars, startupPromise, received, running, clientVars,
                   pendingAction, uiVars>>

(* Mutation: the constructor is not told. *)
SetupFailsSilently ==
    /\ ListenerAt("socket") \/ ListenerAt("bind")
    /\ listenerPc' = "ended"
    /\ UNCHANGED <<engineVars, startupPromise, received, serverVars, uiVars>>

SetupFails ==
    /\ ListenerAt("socket") \/ ListenerAt("bind")
    /\ startupPromise' = "failed" /\ listenerPc' = "ended"
    /\ UNCHANGED <<engineVars, received, serverVars, uiVars>>

BindAndListen ==
    /\ ListenerAt("bind")
    /\ startupPromise' = "ready" /\ listenerPc' = "listening"
    /\ UNCHANGED <<engineVars, received, serverVars, uiVars>>

(* Calling accept on a closed descriptor fails at once. *)
EnterAccept ==
    /\ ListenerAt("listening")
    /\ listenerPc' = IF serverFd = "open" THEN "accept" ELSE "ended"
    /\ UNCHANGED <<engineVars, startupPromise, received, serverVars, uiVars>>

(* Mutation: accept returns at once. *)
AcceptNobody ==
    /\ ListenerAt("accept")
    /\ clientFd' = 1 /\ listenerPc' = "loop"
    /\ UNCHANGED <<engineVars, startupPromise, received, running, serverFd, clientVisible,
                   clientClosed, pendingAction, uiVars>>

(* accept waits for a connection and returns the oldest one. *)
AcceptConnection ==
    /\ ListenerAt("accept")
    /\ connections # << >>
    /\ clientFd' = 1 /\ listenerPc' = "loop"
    /\ UNCHANGED <<engineVars, startupPromise, received, running, serverFd, clientVisible,
                   clientClosed, pendingAction, uiVars>>

(* while (running), and the call of recv. *)
EnterReceive ==
    /\ ListenerAt("loop")
    /\ listenerPc' = IF running /\ ~clientClosed THEN "receive" ELSE "ended"
    /\ UNCHANGED <<engineVars, startupPromise, received, serverVars, uiVars>>

(* receiveMessage.  A message whose descriptor has been closed meanwhile is  *)
(* not read to its end.                                                      *)
ReceiveMessage ==
    /\ ListenerAt("receive")
    /\ connections[clientFd].inbox # << >>
    /\ IF clientClosed
       THEN listenerPc' = "ended" /\ UNCHANGED <<received, connections>>
       ELSE /\ listenerPc' = "store"
            /\ received' = Head(connections[clientFd].inbox)
            /\ connections' = [connections EXCEPT ![clientFd].inbox = Tail(@)]
    /\ UNCHANGED <<engineVars, startupPromise, serverVars, sent>>

(* Mutation: recv's 0 at the end of the connection is tried again. *)
DisconnectRetried ==
    /\ ListenerAt("receive")
    /\ connections[clientFd].inbox = << >> /\ connections[clientFd].ui = "closed"
    /\ UNCHANGED socketVars

Disconnected ==
    /\ ListenerAt("receive")
    /\ connections[clientFd].inbox = << >> /\ connections[clientFd].ui = "closed"
    /\ listenerPc' = "ended"
    /\ UNCHANGED <<engineVars, startupPromise, received, serverVars, uiVars>>

(* Mutation: an action that nobody has polled yet is kept. *)
StoreUnlessPending ==
    /\ ListenerAt("store")
    /\ pendingAction' = IF pendingAction = 0 THEN received ELSE pendingAction
    /\ clientVisible' = TRUE
    /\ received' = 0 /\ listenerPc' = "loop"
    /\ UNCHANGED <<engineVars, startupPromise, running, serverFd, clientFd, clientClosed, uiVars>>

StoreAction ==
    /\ ListenerAt("store")
    /\ pendingAction' = received /\ received' = 0
    /\ clientVisible' = TRUE
    /\ listenerPc' = "loop"
    /\ UNCHANGED <<engineVars, startupPromise, running, serverFd, clientFd, clientClosed, uiVars>>

(* The write of clientFd reaches the engine's thread. *)
ClientFdArrives ==
    /\ clientFd # 0 /\ ~clientVisible
    /\ clientVisible' = TRUE
    /\ UNCHANGED <<engineVars, listenerVars, running, serverFd, clientFd, clientClosed,
                   pendingAction, uiVars>>

ListenerStep ==
    \/ CreateSocket
    \/ BindAndListen
    \/ EnterAccept
    \/ AcceptConnection
    \/ EnterReceive
    \/ ReceiveMessage
    \/ Disconnected
    \/ StoreAction

-----------------------------------------------------------------------------
(* The UI.  The kernel completes connections as long as the socket listens,  *)
(* whether or not anyone accepts them; a closed socket listens on as long as *)
(* a thread is blocked in accept.                                            *)
Listening ==
    \/ serverFd = "open" /\ listenerPc \notin {"socket", "bind"} /\ startupPromise = "ready"
    \/ serverFd = "closed" /\ listenerPc = "accept"

UIConnected(i) == i \in DOMAIN connections /\ connections[i].ui = "open"

UIConnects ==
    /\ enginePc \notin Over /\ Listening
    /\ Len(connections) < MaxConnections
    /\ \A i \in DOMAIN connections : ~UIConnected(i)
    /\ connections' = Append(connections, NewConnection)
    /\ UNCHANGED <<engineVars, listenerVars, serverVars, sent>>

UISends ==
    /\ enginePc \notin Over
    /\ sent < MaxMessages
    /\ \E i \in DOMAIN connections :
         /\ UIConnected(i)
         /\ connections' = [connections EXCEPT ![i].inbox = Append(@, sent + 1)]
    /\ sent' = sent + 1
    /\ UNCHANGED <<engineVars, listenerVars, serverVars>>

UIQuits ==
    /\ enginePc \notin Over
    /\ \E i \in DOMAIN connections :
         /\ UIConnected(i)
         /\ connections' = [connections EXCEPT ![i].ui = "closed"]
    /\ UNCHANGED <<engineVars, listenerVars, serverVars, sent>>

UIStep == UIConnects \/ UISends \/ UIQuits

SocketNext ==
    \/ EngineStep \/ LeaveMain
    \/ ListenerStep \/ SetupFails \/ ClientFdArrives
    \/ UIStep

SocketSpec == SocketInit /\ [][SocketNext]_socketVars

(* Both threads run; the player may do anything or nothing, the game need    *)
(* not end, and the socket need not fail.                                    *)
FairSocketSpec ==
    /\ SocketSpec
    /\ WF_socketVars(EngineStep)
    /\ WF_socketVars(ListenerStep)

-----------------------------------------------------------------------------
SocketTypeOK ==
    /\ enginePc \in {"construct", "await", "poll", "send", "stop", "closeClient",
                     "closeServer", "join"} \union Over
    /\ listenerPc \in {"none", "socket", "bind", "listening", "accept", "loop", "receive",
                       "store", "ended"}
    /\ startupPromise \in {"unset", "ready", "failed"}
    /\ running \in BOOLEAN /\ clientVisible \in BOOLEAN /\ clientClosed \in BOOLEAN
    /\ serverFd \in {"invalid", "open", "closed"}
    /\ clientFd \in {0} \union DOMAIN connections
    /\ received \in 0 .. sent /\ pendingAction \in 0 .. sent
    /\ sent \in 0 .. MaxMessages
    /\ polled \in Seq(1 .. MaxMessages)

(* The engine acts on no message twice and on none after a later one, in     *)
(* whatever order the two threads take the lock.                             *)
PolledInOrder == \A i, j \in DOMAIN polled : i < j => polled[i] < polled[j]

(* The messages of the connection that is accepted, the first one, which the *)
(* mailbox does not hold yet.                                                *)
Unstored ==
    (IF received = 0 THEN << >> ELSE <<received>>)
    \o (IF connections = << >> THEN << >> ELSE connections[1].inbox)

Box == INSTANCE Mailbox
         WITH Messages <- 1 .. MaxMessages,
              channel <- Unstored, slot <- pendingAction, taken <- polled

(* To the engine the two threads, the sockets and the lock are a mailbox:    *)
(* the newest action replaces the one in the slot, and none is lost, doubled *)
(* or overtaken in any other way, up to the end of the process.              *)
ImplementsMailbox == Box!MailboxSpec

(* The constructor does not wait for ever, whatever fails in the listener.   *)
ConstructorEnds == enginePc = "await" ~> enginePc # "await"

(* A message stored in the mailbox is lost only to a later one, or when the  *)
(* engine stops polling: none falls between pollAction's read and its reset. *)
StoredIsPolled ==
    \A m \in 1 .. MaxMessages :
        pendingAction = m ~>
            \/ m \in {polled[i] : i \in DOMAIN polled}
            \/ pendingAction > m
            \/ enginePc \notin {"poll", "send"}

(* Once the UI has left, stop() returns: the listener notices the end of the *)
(* connection although its descriptor has been closed under it, or has been  *)
(* left open by an engine that read clientFd too early.                      *)
StopsOnceUILeft ==
    (enginePc = "join" /\ clientFd # 0 /\ connections[clientFd].ui = "closed")
        ~> enginePc = "exited"

(* SocketServer.cpp:34-36: "the caller sees a std::runtime_error instead of  *)
(* a silent background failure" if the listener fails.                       *)
FailureReachesCaller == enginePc # "terminated"

(* eco_city_tmp_ui.py:13, "Quit UI (backend keeps running)". *)
EngineSurvivesUI == enginePc # "killed"

(* main.cpp:160-161: after an exception, as after every other way out of     *)
(* main, "the process exits cleanly".                                        *)
ProcessExits == enginePc = "stop" ~> enginePc \in Over
=============================================================================
