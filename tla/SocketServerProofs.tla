------------------------- MODULE SocketServerProofs -------------------------
(***************************************************************************)
(* The engine thread, the listener thread and the sockets implement the    *)
(* abstract mailbox, for any number of messages and connections and        *)
(* whatever SIGPIPE does.                                                  *)
(***************************************************************************)
EXTENDS SocketServer, SequenceTheorems, TLAPS

Numbers == 1 .. MaxMessages

(* What the connection that can be accepted, the first one, still holds. *)
Inbox == IF connections = << >> THEN << >> ELSE connections[1].inbox

(* A connection whose inbox is in S. *)
Record(S) == [ui : {"open", "closed"}, reset : BOOLEAN, inbox : S]

Connection == Record(Seq(Numbers))

(* The inductive invariant: the types, what the listener's position says of  *)
(* the connection and of the message it holds, and that no message is ahead  *)
(* of the ones sent.                                                         *)
SocketInv ==
    /\ SocketTypeOK
    /\ connections \in Seq(Connection)
    /\ clientFd \in {0, 1}
    /\ listenerPc \in {"loop", "receive", "store"} => clientFd = 1
    /\ enginePc = "construct" => listenerPc = "none"
    /\ received # 0 <=> listenerPc = "store"
    /\ \A i \in DOMAIN polled : polled[i] <= sent
    /\ \A i \in DOMAIN Inbox : Inbox[i] <= sent

LEMMA InitialState == SocketInit => SocketInv
<1>. SUFFICES ASSUME SocketInit
              PROVE  SocketInv
  OBVIOUS
<1>1. SocketTypeOK
  <2>1. /\ received \in 0 .. sent /\ pendingAction \in 0 .. sent /\ sent \in 0 .. MaxMessages
    BY SocketBoundsAssumption DEF SocketInit
  <2>2. polled \in Seq(1 .. MaxMessages)
    BY DEF SocketInit
  <2>. QED
    BY <2>1, <2>2 DEF SocketInit, SocketTypeOK
<1>2. connections \in Seq(Connection)
  BY DEF SocketInit
<1>3. Inbox = << >> /\ polled = << >>
  BY DEF SocketInit, Inbox
<1>. QED
  BY <1>1, <1>2, <1>3 DEF SocketInit, SocketInv

(* The steps that touch neither the messages nor the connections. *)
LEMMA QuietSteps ==
    ASSUME SocketInv, UNCHANGED <<polled, connections, sent, received, pendingAction, clientFd>>,
           enginePc' \in {"await", "poll", "send", "stop", "closeClient", "closeServer", "join"}
                           \union Over \/ UNCHANGED <<enginePc, listenerPc>>,
           listenerPc' \in {"none", "socket", "bind", "listening", "accept", "loop", "receive",
                            "ended"} \/ UNCHANGED listenerPc,
           listenerPc' \in {"loop", "receive"} => listenerPc \in {"loop", "receive"},
           listenerPc = "store" => UNCHANGED listenerPc,
           startupPromise' \in {"unset", "ready", "failed"},
           running' \in BOOLEAN, clientVisible' \in BOOLEAN, clientClosed' \in BOOLEAN,
           serverFd' \in {"invalid", "open", "closed"}
    PROVE  SocketInv'
  BY DEF SocketInv, SocketTypeOK, Inbox, Over

(* Facts about a sequence of connections, whatever their inboxes hold. *)
LEMMA RecordFields ==
    ASSUME NEW S, NEW cs \in Seq(Record(S)), NEW i \in DOMAIN cs
    PROVE  /\ cs[i] \in Record(S) /\ cs[i].inbox \in S
           /\ cs # << >> /\ i \in 1 .. Len(cs) /\ 1 \in DOMAIN cs
<1>1. i \in 1 .. Len(cs) /\ cs # << >> /\ 1 \in DOMAIN cs
  BY EmptySeq, LenProperties
<1>2. cs[i] \in Record(S)
  BY <1>1, ElementOfSeq
<1>. QED
  BY <1>1, <1>2 DEF Record

LEMMA RecordReplaced ==
    ASSUME NEW S, NEW cs \in Seq(Record(S)), NEW i \in DOMAIN cs, NEW c \in Record(S)
    PROVE  /\ [cs EXCEPT ![i] = c] \in Seq(Record(S)) /\ [cs EXCEPT ![i] = c] # << >>
           /\ DOMAIN [cs EXCEPT ![i] = c] = DOMAIN cs
           /\ [cs EXCEPT ![i] = c][1] = IF i = 1 THEN c ELSE cs[1]
<1>1. i \in 1 .. Len(cs) /\ cs # << >> /\ 1 \in DOMAIN cs
  BY RecordFields
<1>2. [cs EXCEPT ![i] = c] \in Seq(Record(S)) /\ Len([cs EXCEPT ![i] = c]) = Len(cs)
  BY <1>1, ExceptSeq
<1>3. DOMAIN [cs EXCEPT ![i] = c] = DOMAIN cs
  OBVIOUS
<1>4. [cs EXCEPT ![i] = c] # << >>
  BY <1>1, <1>3
<1>5. [cs EXCEPT ![i] = c][1] = IF i = 1 THEN c ELSE cs[1]
  BY <1>1
<1>. QED
  BY <1>2, <1>3, <1>4, <1>5

LEMMA MessagesBehindHead ==
    ASSUME NEW S \in SUBSET Nat, NEW s \in Seq(S), s # << >>, NEW n \in Nat,
           \A i \in DOMAIN s : s[i] <= n
    PROVE  /\ Head(s) \in S /\ Head(s) <= n
           /\ Tail(s) \in Seq(S)
           /\ \A i \in DOMAIN Tail(s) : Tail(s)[i] <= n
<1>1. /\ Len(s) \in Nat \ {0} /\ DOMAIN s = 1 .. Len(s)
      /\ Head(s) \in S /\ Tail(s) \in Seq(S) /\ Len(Tail(s)) = Len(s) - 1
      /\ DOMAIN Tail(s) = 1 .. Len(Tail(s))
      /\ \A i \in 1 .. Len(Tail(s)) : Tail(s)[i] = s[i + 1]
  BY EmptySeq, LenProperties, HeadTailProperties
<1>2. Head(s) = s[1]
  OBVIOUS
<1>. QED
  BY <1>1, <1>2

LEMMA InboxType ==
    ASSUME connections \in Seq(Connection)
    PROVE  /\ Inbox \in Seq(Numbers)
           /\ connections # << >> => Inbox = connections[1].inbox
<1>1. CASE connections = << >>
  BY <1>1, EmptySeq DEF Inbox
<1>2. CASE connections # << >>
  <2>1. 1 \in DOMAIN connections
    BY <1>2, EmptySeq, LenProperties
  <2>2. connections[1].inbox \in Seq(Numbers)
    BY <2>1, RecordFields DEF Connection
  <2>. QED
    BY <1>2, <2>2 DEF Inbox
<1>. QED
  BY <1>1, <1>2

LEMMA ConnectionUpdated ==
    ASSUME connections \in Seq(Connection), NEW i \in DOMAIN connections, NEW c \in Connection,
           connections' = [connections EXCEPT ![i] = c]
    PROVE  /\ connections' \in Seq(Connection)
           /\ DOMAIN connections' = DOMAIN connections
           /\ Inbox' = IF i = 1 THEN c.inbox ELSE Inbox
           /\ Inbox = connections[1].inbox
<1>1. /\ connections' \in Seq(Connection) /\ connections' # << >>
      /\ DOMAIN connections' = DOMAIN connections
      /\ connections'[1] = IF i = 1 THEN c ELSE connections[1]
  BY RecordReplaced DEF Connection
<1>2. connections # << >>
  BY RecordFields DEF Connection
<1>. QED
  BY <1>1, <1>2 DEF Inbox

(* What each step that changes the connections does to them. *)
LEMMA SendKeepsInbox ==
    ASSUME SocketInv, SendGameState
    PROVE  /\ connections' \in Seq(Connection) /\ DOMAIN connections' = DOMAIN connections
           /\ Inbox' = Inbox
<1>. USE DEF SocketInv, SocketTypeOK
<1>1. connections' = connections \/ connections' = [connections EXCEPT ![clientFd].reset = TRUE]
  BY DEF SendGameState, SendToNobody, SendAfterReset, Deliver
<1>s. SeenFd \in {0, clientFd}
  BY DEF SeenFd
<1>2. connections' # connections => clientFd \in DOMAIN connections
  BY <1>s DEF SendGameState, SendAfterReset, Deliver
<1>3. /\ connections' \in Seq(Connection) /\ Inbox' = Inbox
      /\ DOMAIN connections' = DOMAIN connections
  <2>1. CASE connections' = connections
    BY <2>1 DEF Inbox
  <2>2. CASE connections' # connections
    <3>. DEFINE c == [connections[clientFd] EXCEPT !.reset = TRUE]
    <3>1. clientFd \in DOMAIN connections /\ connections' = [connections EXCEPT ![clientFd] = c]
      BY <1>1, <1>2, <2>2
    <3>2. connections[clientFd] \in Connection
      BY <3>1, RecordFields DEF Connection
    <3>3. c \in Connection /\ c.inbox = connections[clientFd].inbox
      BY <3>2 DEF Connection, Record
    <3>. HIDE DEF c
    <3>. QED
      BY <3>1, <3>3, ConnectionUpdated
  <2>. QED
    BY <2>1, <2>2
<1>. QED
  BY <1>3

LEMMA ReceiveTakesHead ==
    ASSUME SocketInv, ReceiveMessage, ~clientClosed
    PROVE  /\ connections' \in Seq(Connection) /\ DOMAIN connections' = DOMAIN connections
           /\ clientFd = 1 /\ received = 0
           /\ Inbox \in Seq(Numbers) /\ Inbox # << >>
           /\ received' = Head(Inbox) /\ Inbox' = Tail(Inbox)
           /\ received' \in 1 .. sent
           /\ \A i \in DOMAIN Tail(Inbox) : Tail(Inbox)[i] <= sent
<1>. USE DEF SocketInv, SocketTypeOK
<1>. DEFINE c == [connections[1] EXCEPT !.inbox = Tail(Inbox)]
<1>1. clientFd = 1 /\ 1 \in DOMAIN connections /\ received = 0
  BY DEF ReceiveMessage, ListenerAt
<1>2. Inbox = connections[1].inbox /\ Inbox \in Seq(Numbers) /\ connections[1] \in Connection
  BY <1>1, InboxType, RecordFields DEF Connection
<1>3. Inbox # << >> /\ received' = Head(Inbox) /\ connections' = [connections EXCEPT ![1] = c]
  BY <1>1, <1>2 DEF ReceiveMessage
<1>4. /\ Head(Inbox) \in Numbers /\ Head(Inbox) <= sent
      /\ Tail(Inbox) \in Seq(Numbers)
      /\ \A i \in DOMAIN Tail(Inbox) : Tail(Inbox)[i] <= sent
  <2>1. Numbers \in SUBSET Nat /\ sent \in Nat
    BY DEF Numbers
  <2>2. \A i \in DOMAIN Inbox : Inbox[i] <= sent
    OBVIOUS
  <2>. QED
    BY <1>2, <1>3, <2>1, <2>2, MessagesBehindHead
<1>5. c \in Connection /\ c.inbox = Tail(Inbox)
  BY <1>2, <1>4 DEF Connection, Record
<1>. HIDE DEF c
<1>6. /\ connections' \in Seq(Connection) /\ Inbox' = Tail(Inbox)
      /\ DOMAIN connections' = DOMAIN connections
  BY <1>1, <1>3, <1>5, ConnectionUpdated
<1>7. received' \in 1 .. sent
  BY <1>3, <1>4 DEF Numbers
<1>. QED
  BY <1>1, <1>2, <1>3, <1>4, <1>6, <1>7

LEMMA ConnectKeepsInbox ==
    ASSUME SocketInv, UIConnects
    PROVE  /\ connections' \in Seq(Connection) /\ Inbox' = Inbox
           /\ DOMAIN connections' = 1 .. Len(connections) + 1
           /\ DOMAIN connections = 1 .. Len(connections)
<1>. USE DEF SocketInv, SocketTypeOK
<1>1. NewConnection \in Connection
  BY EmptySeq DEF NewConnection, Connection, Record
<1>2. connections' = Append(connections, NewConnection)
  BY DEF UIConnects
<1>3. /\ connections' \in Seq(Connection) /\ connections' # << >>
      /\ DOMAIN connections' = 1 .. Len(connections) + 1
      /\ DOMAIN connections = 1 .. Len(connections)
  BY <1>1, <1>2, AppendProperties, LenProperties
<1>4. Inbox' = Inbox
  <2>1. CASE connections = << >>
    BY <1>2, <2>1 DEF Inbox, NewConnection
  <2>2. CASE connections # << >>
    <3>1. 1 \in 1 .. Len(connections)
      BY <2>2, EmptySeq
    <3>2. connections'[1] = connections[1]
      BY <1>1, <1>2, <3>1, AppendProperties
    <3>. QED
      BY <1>3, <2>2, <3>2 DEF Inbox
  <2>. QED
    BY <2>1, <2>2
<1>. QED
  BY <1>3, <1>4

LEMMA UISendsAtEnd ==
    ASSUME SocketInv, UISends
    PROVE  /\ connections' \in Seq(Connection) /\ DOMAIN connections' = DOMAIN connections
           /\ sent + 1 \in Numbers
           /\ Inbox' \in {Append(Inbox, sent + 1), Inbox} /\ Inbox \in Seq(Numbers)
<1>. USE SocketBoundsAssumption DEF SocketInv, SocketTypeOK
<1>1. PICK i \in DOMAIN connections :
        connections' = [connections EXCEPT ![i].inbox = Append(@, sent + 1)]
  BY DEF UISends, UIConnected
<1>2. sent' = sent + 1 /\ sent + 1 \in Numbers
  BY DEF UISends, Numbers
<1>. DEFINE c == [connections[i] EXCEPT !.inbox = Append(@, sent + 1)]
<1>3. connections[i] \in Connection /\ connections[i].inbox \in Seq(Numbers)
  BY RecordFields DEF Connection
<1>4. c \in Connection /\ c.inbox = Append(connections[i].inbox, sent + 1)
  BY <1>2, <1>3, AppendProperties DEF Connection, Record
<1>5. connections' = [connections EXCEPT ![i] = c]
  BY <1>1
<1>. HIDE DEF c
<1>6. /\ connections' \in Seq(Connection) /\ DOMAIN connections' = DOMAIN connections
      /\ Inbox' = IF i = 1 THEN Append(Inbox, sent + 1) ELSE Inbox
      /\ Inbox \in Seq(Numbers)
  BY <1>4, <1>5, ConnectionUpdated, InboxType
<1>. QED
  BY <1>2, <1>6

LEMMA QuitKeepsInbox ==
    ASSUME SocketInv, UIQuits
    PROVE  /\ connections' \in Seq(Connection) /\ DOMAIN connections' = DOMAIN connections
           /\ Inbox' = Inbox
<1>. USE DEF SocketInv, SocketTypeOK
<1>1. PICK i \in DOMAIN connections : connections' = [connections EXCEPT ![i].ui = "closed"]
  BY DEF UIQuits, UIConnected
<1>. DEFINE c == [connections[i] EXCEPT !.ui = "closed"]
<1>2. connections[i] \in Connection
  BY RecordFields DEF Connection
<1>3. c \in Connection /\ c.inbox = connections[i].inbox
  BY <1>2 DEF Connection, Record
<1>4. connections' = [connections EXCEPT ![i] = c]
  BY <1>1
<1>. HIDE DEF c
<1>5. /\ connections' \in Seq(Connection) /\ DOMAIN connections' = DOMAIN connections
      /\ Inbox' = Inbox
  BY <1>3, <1>4, ConnectionUpdated
<1>. QED
  BY <1>5

LEMMA StepsKeepInv == SocketInv /\ [SocketNext]_socketVars => SocketInv'
<1>. SUFFICES ASSUME SocketInv, [SocketNext]_socketVars
              PROVE  SocketInv'
  OBVIOUS
<1>. USE SocketBoundsAssumption
<1>q. CASE \/ StartListener \/ ConstructorReturns \/ ConstructorThrows \/ LeaveMain
           \/ StopRunning \/ CloseClient \/ CloseServer \/ Join
           \/ CreateSocket \/ SetupFails \/ BindAndListen \/ EnterAccept \/ EnterReceive
           \/ Disconnected \/ ClientFdArrives \/ UNCHANGED socketVars
  <2>1. CASE StartListener
    BY <2>1, QuietSteps DEF StartListener, SocketInv, SocketTypeOK, serverVars, clientVars, uiVars
  <2>2. CASE ConstructorReturns
    BY <2>2, QuietSteps
       DEF ConstructorReturns, SocketInv, SocketTypeOK, listenerVars, serverVars, clientVars, uiVars
  <2>3. CASE ConstructorThrows
    BY <2>3, QuietSteps
       DEF ConstructorThrows, SocketInv, SocketTypeOK, Over, listenerVars, serverVars, clientVars, uiVars
  <2>4. CASE LeaveMain
    BY <2>4, QuietSteps
       DEF LeaveMain, SocketInv, SocketTypeOK, listenerVars, serverVars, clientVars, uiVars
  <2>5. CASE StopRunning
    BY <2>5, QuietSteps DEF StopRunning, SocketInv, SocketTypeOK, listenerVars, clientVars, uiVars
  <2>6. CASE CloseClient
    BY <2>6, QuietSteps DEF CloseClient, SocketInv, SocketTypeOK, listenerVars, uiVars
  <2>7. CASE CloseServer
    BY <2>7, QuietSteps DEF CloseServer, SocketInv, SocketTypeOK, listenerVars, clientVars, uiVars
  <2>8. CASE Join
    BY <2>8, QuietSteps
       DEF Join, SocketInv, SocketTypeOK, Over, listenerVars, serverVars, clientVars, uiVars
  <2>9. CASE CreateSocket
    BY <2>9, QuietSteps
       DEF CreateSocket, ListenerAt, SocketInv, SocketTypeOK, engineVars, clientVars, uiVars
  <2>10. CASE SetupFails
    BY <2>10, QuietSteps
       DEF SetupFails, ListenerAt, SocketInv, SocketTypeOK, engineVars, serverVars, clientVars, uiVars
  <2>11. CASE BindAndListen
    BY <2>11, QuietSteps
       DEF BindAndListen, ListenerAt, SocketInv, SocketTypeOK, engineVars, serverVars, clientVars, uiVars
  <2>12. CASE EnterAccept
    BY <2>12, QuietSteps
       DEF EnterAccept, ListenerAt, SocketInv, SocketTypeOK, engineVars, serverVars, clientVars, uiVars
  <2>13. CASE EnterReceive
    BY <2>13, QuietSteps
       DEF EnterReceive, ListenerAt, SocketInv, SocketTypeOK, engineVars, serverVars, clientVars, uiVars
  <2>14. CASE Disconnected
    BY <2>14, QuietSteps
       DEF Disconnected, ListenerAt, SocketInv, SocketTypeOK, engineVars, serverVars, clientVars, uiVars
  <2>15. CASE UNCHANGED socketVars
    BY <2>15, QuietSteps
       DEF SocketInv, SocketTypeOK, socketVars, engineVars, listenerVars, serverVars, clientVars, uiVars
  <2>16. CASE ClientFdArrives
    BY <2>16, QuietSteps
       DEF ClientFdArrives, SocketInv, SocketTypeOK, engineVars, listenerVars, uiVars
  <2>. QED
    BY <1>q, <2>1, <2>2, <2>3, <2>4, <2>5, <2>6, <2>7, <2>8, <2>9, <2>10, <2>11, <2>12, <2>13,
       <2>14, <2>15, <2>16
<1>1. CASE PollAction
  <2>. USE DEF SocketInv, SocketTypeOK
  <2>1. /\ polled' \in Seq(1 .. MaxMessages)
        /\ \A i \in DOMAIN polled' : polled'[i] <= sent
    <3>1. CASE pendingAction = 0
      BY <1>1, <3>1 DEF PollAction
    <3>2. CASE pendingAction # 0
      <4>1. polled' = Append(polled, pendingAction) /\ pendingAction \in 1 .. MaxMessages
        BY <1>1, <3>2 DEF PollAction
      <4>. QED
        BY <4>1, AppendProperties
    <3>. QED
      BY <3>1, <3>2
  <2>2. pendingAction' \in 0 .. sent
    BY <1>1 DEF PollAction
  <2>3. Inbox' = Inbox
    BY <1>1 DEF PollAction, Inbox, uiVars
  <2>. QED
    BY <1>1, <2>1, <2>2, <2>3 DEF PollAction, listenerVars, clientVars, uiVars
<1>2. CASE SendGameState
  <2>. USE DEF SocketInv, SocketTypeOK
  <2>3. /\ connections' \in Seq(Connection) /\ Inbox' = Inbox
        /\ DOMAIN connections' = DOMAIN connections
    BY <1>2, SendKeepsInbox
  <2>4. enginePc' \in {"poll", "killed"}
    BY <1>2 DEF SendGameState, SendToNobody, SendAfterReset, Deliver
  <2>. QED
    BY <1>2, <2>3, <2>4 DEF SendGameState, Over, listenerVars, serverVars, clientVars
<1>3. CASE AcceptConnection
  BY <1>3 DEF AcceptConnection, ListenerAt, SocketInv, SocketTypeOK, Inbox, engineVars, uiVars
<1>4. CASE ReceiveMessage
  <2>. USE DEF SocketInv, SocketTypeOK
  <2>1. CASE clientClosed
    BY <1>4, <2>1, QuietSteps DEF ReceiveMessage, ListenerAt, engineVars, serverVars, clientVars
  <2>2. CASE ~clientClosed
    <3>1. /\ connections' \in Seq(Connection) /\ DOMAIN connections' = DOMAIN connections
          /\ clientFd = 1 /\ Inbox' = Tail(Inbox)
          /\ received' \in 1 .. sent
          /\ \A i \in DOMAIN Tail(Inbox) : Tail(Inbox)[i] <= sent
      BY <1>4, <2>2, ReceiveTakesHead
    <3>. QED
      BY <1>4, <2>2, <3>1 DEF ReceiveMessage, ListenerAt, engineVars, serverVars, clientVars
  <2>. QED
    BY <2>1, <2>2
<1>5. CASE StoreAction
  BY <1>5 DEF StoreAction, ListenerAt, SocketInv, SocketTypeOK, Inbox, engineVars, uiVars
<1>6. CASE UIConnects
  <2>. USE DEF SocketInv, SocketTypeOK
  <2>1. /\ connections' \in Seq(Connection) /\ Inbox' = Inbox
        /\ DOMAIN connections' = 1 .. Len(connections) + 1
        /\ DOMAIN connections = 1 .. Len(connections)
    BY <1>6, ConnectKeepsInbox
  <2>2. clientFd \in {0} \union DOMAIN connections'
    BY <2>1, LenProperties
  <2>. QED
    BY <1>6, <2>1, <2>2 DEF UIConnects, engineVars, listenerVars, serverVars, clientVars
<1>7. CASE UISends
  <2>. USE DEF SocketInv, SocketTypeOK
  <2>1. sent' = sent + 1 /\ sent + 1 \in Numbers
    BY <1>7 DEF UISends, Numbers
  <2>2. /\ connections' \in Seq(Connection) /\ DOMAIN connections' = DOMAIN connections
        /\ Inbox' \in {Append(Inbox, sent + 1), Inbox} /\ Inbox \in Seq(Numbers)
    BY <1>7, UISendsAtEnd
  <2>3. \A k \in DOMAIN Inbox' : Inbox'[k] <= sent'
    <3>1. \A k \in DOMAIN Inbox : Inbox[k] <= sent /\ Inbox[k] <= sent + 1
      BY <2>2, LenProperties, ElementOfSeq DEF Numbers
    <3>2. CASE Inbox' = Inbox
      BY <2>1, <3>1, <3>2
    <3>3. CASE Inbox' = Append(Inbox, sent + 1)
      BY <2>1, <2>2, <3>1, <3>3, AppendProperties, LenProperties
    <3>. QED
      BY <2>2, <3>2, <3>3
  <2>4. \A k \in DOMAIN polled : polled[k] <= sent'
    <3>1. \A k \in DOMAIN polled : polled[k] \in Nat
      BY LenProperties, ElementOfSeq
    <3>. QED
      BY <2>1, <3>1
  <2>5. received \in 0 .. sent' /\ pendingAction \in 0 .. sent' /\ sent' \in 0 .. MaxMessages
    BY <2>1 DEF Numbers
  <2>. QED
    BY <1>7, <2>2, <2>3, <2>4, <2>5 DEF UISends, engineVars, listenerVars, serverVars, clientVars
<1>8. CASE UIQuits
  <2>. USE DEF SocketInv, SocketTypeOK
  <2>1. /\ connections' \in Seq(Connection) /\ DOMAIN connections' = DOMAIN connections
        /\ Inbox' = Inbox
    BY <1>8, QuitKeepsInbox
  <2>. QED
    BY <1>8, <2>1 DEF UIQuits, engineVars, listenerVars, serverVars, clientVars
<1>. QED
  BY <1>q, <1>1, <1>2, <1>3, <1>4, <1>5, <1>6, <1>7, <1>8
     DEF SocketNext, EngineStep, ListenerStep, UIStep

(* What the threads and the sockets hold stays of its type: no position of   *)
(* one thread finds the other's data half made.                              *)
THEOREM SocketTypeCorrect == SocketSpec => []SocketTypeOK
<1>1. SocketInv => SocketTypeOK
  BY DEF SocketInv
<1>. QED
  BY <1>1, InitialState, StepsKeepInv, PTL DEF SocketSpec

-----------------------------------------------------------------------------
(* The channel of the abstract mailbox: what the listener has in hand, and   *)
(* behind it what the connection holds.                                      *)
LEMMA ChannelIs ==
    ASSUME SocketInv
    PROVE  /\ Inbox \in Seq(Numbers)
           /\ received = 0 => Unstored = Inbox
           /\ received # 0 => Unstored = <<received>> \o Inbox /\ received \in Numbers
<1>1. Inbox \in Seq(Numbers)
  BY InboxType DEF SocketInv
<1>2. received # 0 => received \in Numbers
  BY SocketBoundsAssumption DEF SocketInv, SocketTypeOK, Numbers
<1>3. Unstored = (IF received = 0 THEN << >> ELSE <<received>>) \o Inbox
  BY DEF Unstored, Inbox
<1>. QED
  BY <1>1, <1>2, <1>3, ConcatEmptySeq

LEMMA HeadFirst ==
    ASSUME NEW S, NEW x \in S, NEW s \in Seq(S)
    PROVE  /\ <<x>> \o s \in Seq(S) /\ <<x>> \o s # << >>
           /\ Head(<<x>> \o s) = x /\ Tail(<<x>> \o s) = s
  OBVIOUS

LEMMA AppendBehind ==
    ASSUME NEW S, NEW x \in S, NEW s \in Seq(S), NEW y \in S
    PROVE  Append(<<x>> \o s, y) = <<x>> \o Append(s, y)
  OBVIOUS

LEMMA HeadAndTail ==
    ASSUME NEW S, NEW s \in Seq(S), s # << >>
    PROVE  s = <<Head(s)>> \o Tail(s)
  OBVIOUS

LEMMA InitImplements == SocketInit => Box!MailboxInit
  BY ConcatEmptySeq, EmptySeq DEF SocketInit, Box!MailboxInit, Unstored

(* No message in the channel is ahead of the ones sent. *)
LEMMA ChannelBehind ==
    ASSUME SocketInv
    PROVE  /\ \A i \in DOMAIN Unstored : Unstored[i] < sent + 1
           /\ \A i \in DOMAIN polled : polled[i] < sent + 1
           /\ pendingAction < sent + 1
<1>. USE DEF SocketInv, SocketTypeOK
<1>1. \A i \in DOMAIN Inbox : Inbox[i] < sent + 1
  <2>1. \A i \in DOMAIN Inbox : Inbox[i] \in Numbers
    BY ChannelIs, LenProperties, ElementOfSeq
  <2>2. \A i \in DOMAIN Inbox : Inbox[i] <= sent
    OBVIOUS
  <2>. QED
    BY <2>1, <2>2 DEF Numbers
<1>2. \A i \in DOMAIN Unstored : Unstored[i] < sent + 1
  <2>1. CASE received = 0
    BY <1>1, <2>1, ChannelIs
  <2>2. CASE received # 0
    <3>1. /\ <<received>> \in Seq(Numbers) /\ Inbox \in Seq(Numbers)
          /\ Unstored = <<received>> \o Inbox
      BY <2>2, ChannelIs
    <3>2. /\ DOMAIN Unstored = 1 .. 1 + Len(Inbox) /\ Len(Inbox) \in Nat
          /\ DOMAIN Inbox = 1 .. Len(Inbox)
          /\ \A i \in DOMAIN Unstored : Unstored[i] = IF i <= 1 THEN received ELSE Inbox[i - 1]
      BY <3>1, ConcatProperties, LenProperties
    <3>. QED
      BY <1>1, <3>2
  <2>. QED
    BY <2>1, <2>2
<1>3. \A i \in DOMAIN polled : polled[i] < sent + 1
  <2>1. \A i \in DOMAIN polled : polled[i] \in 1 .. MaxMessages
    BY LenProperties, ElementOfSeq
  <2>2. \A i \in DOMAIN polled : polled[i] <= sent
    OBVIOUS
  <2>. QED
    BY <2>1, <2>2
<1>. QED
  BY <1>2, <1>3

(* Every step is a step of the mailbox or leaves it alone: the UI's are      *)
(* sends, the one that takes the lock to store is Store, and the poll that   *)
(* finds the slot full is Take.                                              *)
LEMMA StepsImplement ==
    ASSUME SocketInv, SocketInv', [SocketNext]_socketVars
    PROVE  [Box!MailboxNext]_Box!boxVars
<1>. USE DEF SocketInv, SocketTypeOK
<1>q. CASE UNCHANGED <<connections, received, pendingAction, polled>>
  BY <1>q DEF Box!boxVars, Unstored
<1>1. CASE SendGameState
  <2>1. UNCHANGED <<Inbox, received, pendingAction, polled>>
    BY <1>1, SendKeepsInbox DEF SendGameState, listenerVars, serverVars, clientVars
  <2>. QED
    BY <2>1 DEF Box!boxVars, Unstored, Inbox
<1>2. CASE PollAction
  <2>1. Unstored' = Unstored
    BY <1>2 DEF PollAction, Unstored, listenerVars, uiVars
  <2>2. CASE pendingAction = 0
    BY <1>2, <2>1, <2>2 DEF PollAction, Box!boxVars
  <2>3. CASE pendingAction # 0
    BY <1>2, <2>1, <2>3 DEF PollAction, Box!MailboxNext, Box!Take
  <2>. QED
    BY <2>2, <2>3
<1>3. CASE ReceiveMessage
  <2>1. CASE clientClosed
    BY <1>q, <1>3, <2>1 DEF ReceiveMessage, engineVars, serverVars, clientVars
  <2>2. CASE ~clientClosed
    <3>1. /\ Unstored = Inbox /\ Inbox \in Seq(Numbers) /\ Inbox # << >>
          /\ received' = Head(Inbox) /\ received' # 0 /\ Inbox' = Tail(Inbox)
      BY <1>3, <2>2, ReceiveTakesHead, ChannelIs
    <3>2. Unstored' = <<Head(Inbox)>> \o Tail(Inbox)
      BY <3>1 DEF Unstored, Inbox
    <3>3. Unstored' = Unstored
      BY <3>1, <3>2, HeadAndTail
    <3>. QED
      BY <1>3, <3>3 DEF ReceiveMessage, Box!boxVars, engineVars, serverVars, clientVars
  <2>. QED
    BY <2>1, <2>2
<1>4. CASE StoreAction
  <2>1. received # 0 /\ received' = 0 /\ pendingAction' = received /\ UNCHANGED <<polled, Inbox>>
    BY <1>4 DEF StoreAction, ListenerAt, Inbox, engineVars, uiVars
  <2>2. Unstored' = Inbox
    BY <2>1, ChannelIs, ConcatEmptySeq DEF Unstored, Inbox
  <2>3. Unstored # << >> /\ Head(Unstored) = received /\ Tail(Unstored) = Inbox
    <3>1. received \in Numbers /\ Inbox \in Seq(Numbers) /\ Unstored = <<received>> \o Inbox
      BY <2>1, ChannelIs
    <3>. HIDE DEF SocketInv, SocketTypeOK
    <3>2. LET u == <<received>> \o Inbox
          IN  u # << >> /\ Head(u) = received /\ Tail(u) = Inbox
      BY <3>1, HeadFirst, Zenon
    <3>. QED
      BY <3>1, <3>2, Zenon
  <2>. QED
    BY <2>1, <2>2, <2>3 DEF Box!MailboxNext, Box!Store
<1>5. CASE UIConnects
  <2>1. UNCHANGED <<Inbox, received, pendingAction, polled>>
    BY <1>5, ConnectKeepsInbox DEF UIConnects, engineVars, listenerVars, serverVars, clientVars
  <2>. QED
    BY <2>1 DEF Box!boxVars, Unstored, Inbox
<1>6. CASE UISends
  <2>1. UNCHANGED <<received, pendingAction, polled>>
    BY <1>6 DEF UISends, engineVars, listenerVars, serverVars, clientVars
  <2>2. sent + 1 \in Numbers /\ Inbox \in Seq(Numbers)
    BY <1>6, UISendsAtEnd
  <2>3. CASE Inbox' = Inbox
    BY <2>1, <2>3 DEF Box!boxVars, Unstored, Inbox
  <2>4. CASE Inbox' = Append(Inbox, sent + 1)
    <3>1. Unstored' = (IF received = 0 THEN << >> ELSE <<received>>) \o Append(Inbox, sent + 1)
      BY <2>1, <2>4 DEF Unstored, Inbox
    <3>2. Unstored' = Append(Unstored, sent + 1)
      <4>1. Append(Inbox, sent + 1) \in Seq(Numbers)
        BY <2>2, AppendProperties
      <4>2. CASE received = 0
        BY <2>2, <3>1, <4>1, <4>2, ChannelIs, ConcatEmptySeq
      <4>3. CASE received # 0
        <5>1. received \in Numbers /\ Unstored = <<received>> \o Inbox
          BY <4>3, ChannelIs
        <5>. HIDE DEF SocketInv, SocketTypeOK
        <5>2. Append(<<received>> \o Inbox, sent + 1) = <<received>> \o Append(Inbox, sent + 1)
          <6>1. \A S : \A x, y \in S : \A s \in Seq(S) :
                    Append(<<x>> \o s, y) = <<x>> \o Append(s, y)
            BY AppendBehind
          <6>. DEFINE next == sent + 1
          <6>2. next \in Numbers
            BY <2>2
          <6>. HIDE DEF next
          <6>3. Append(<<received>> \o Inbox, next) = <<received>> \o Append(Inbox, next)
            BY <2>2, <5>1, <6>1, <6>2, Zenon
          <6>. QED
            BY <6>3 DEF next
        <5>. QED
          BY <3>1, <4>3, <5>1, <5>2
      <4>. QED
        BY <4>2, <4>3
    <3>. QED
      BY <2>1, <2>2, <3>2, ChannelBehind DEF Box!MailboxNext, Box!Send, Numbers
  <2>. QED
    BY <1>6, <2>3, <2>4, UISendsAtEnd
<1>7. CASE UIQuits
  <2>1. UNCHANGED <<Inbox, received, pendingAction, polled>>
    BY <1>7, QuitKeepsInbox DEF UIQuits, engineVars, listenerVars, serverVars, clientVars
  <2>. QED
    BY <2>1 DEF Box!boxVars, Unstored, Inbox
<1>8. CASE \/ StartListener \/ ConstructorReturns \/ ConstructorThrows \/ LeaveMain
           \/ StopRunning \/ CloseClient \/ CloseServer \/ Join
  BY <1>q, <1>8 DEF StartListener, ConstructorReturns, ConstructorThrows, LeaveMain, StopRunning,
     CloseClient, CloseServer, Join, listenerVars, serverVars, clientVars, uiVars
<1>9. CASE \/ CreateSocket \/ SetupFails \/ BindAndListen \/ EnterAccept \/ AcceptConnection
           \/ EnterReceive \/ Disconnected \/ ClientFdArrives \/ UNCHANGED socketVars
  BY <1>q, <1>9 DEF CreateSocket, SetupFails, BindAndListen, EnterAccept, AcceptConnection,
     EnterReceive, Disconnected, ClientFdArrives, socketVars, engineVars, listenerVars,
     serverVars, clientVars, uiVars
<1>. QED
  BY <1>1, <1>2, <1>3, <1>4, <1>5, <1>6, <1>7, <1>8, <1>9
     DEF SocketNext, EngineStep, ListenerStep, UIStep

(* SocketServer.cpp:111-115 and 175-181 with everything around them: the     *)
(* engine sees a mailbox with one slot, whatever the interleaving, for any   *)
(* number of messages and connections, up to the end of the process.         *)
THEOREM ServerIsMailbox == SocketSpec => ImplementsMailbox
<1>1. SocketInv /\ SocketInv' /\ [SocketNext]_socketVars => [Box!MailboxNext]_Box!boxVars
  BY StepsImplement
<1>. QED
  BY <1>1, InitialState, InitImplements, StepsKeepInv, PTL
     DEF SocketSpec, ImplementsMailbox, Box!MailboxSpec

-----------------------------------------------------------------------------
BoxProofs == INSTANCE MailboxProofs
               WITH Messages <- 1 .. MaxMessages,
                    channel <- Unstored, slot <- pendingAction, taken <- polled

(* The engine acts on no message twice and on none after a later one: the    *)
(* mailbox guarantees it, and the server is one.                             *)
THEOREM ActionsPolledInOrder == SocketSpec => []PolledInOrder
<1>1. 1 .. MaxMessages \subseteq Nat \ {0}
  BY SocketBoundsAssumption
<1>2. BoxProofs!MailboxSpec => []BoxProofs!TakenInOrder
  BY <1>1, BoxProofs!MessagesTakenInOrder
<1>3. ImplementsMailbox <=> BoxProofs!MailboxSpec
  <2>1. Box!MailboxInit <=> BoxProofs!MailboxInit
    BY DEF Box!MailboxInit, BoxProofs!MailboxInit
  <2>2. [Box!MailboxNext]_Box!boxVars <=> [BoxProofs!MailboxNext]_BoxProofs!boxVars
    BY DEF Box!MailboxNext, Box!Send, Box!Store, Box!Take, Box!boxVars,
       BoxProofs!MailboxNext, BoxProofs!Send, BoxProofs!Store, BoxProofs!Take, BoxProofs!boxVars
  <2>. QED
    BY <2>1, <2>2, PTL DEF ImplementsMailbox, Box!MailboxSpec, BoxProofs!MailboxSpec
<1>4. BoxProofs!TakenInOrder => PolledInOrder
  BY DEF BoxProofs!TakenInOrder, PolledInOrder
<1>. QED
  BY <1>2, <1>3, <1>4, ServerIsMailbox, PTL
=============================================================================
