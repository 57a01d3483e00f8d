---------------------------- MODULE PlayerSession ----------------------------
(***************************************************************************)
(* From a key to the screen and back: the terminal UI (its main loop and   *)
(* its connection thread), the connection, the server's mailbox and the    *)
(* engine's ticks, over several runs of the engine process.                *)
(*                                                                         *)
(* The mailbox is the abstract one that SocketServer is shown to be.  A    *)
(* key is a number, in the order the keys are sent; a petition is named by *)
(* the answer that brought it up, or by minus the run it began.  What the  *)
(* UI shows of a state is its petition; "answered", the last key the       *)
(* engine had polled when it sent the state, is a history variable.  What  *)
(* a key says (accept, reject or save) is chosen when the engine reads it, *)
(* and the redraws of a flash message, up for three seconds after a key,   *)
(* are a free choice of the main loop.                                     *)
(***************************************************************************)
EXTENDS Integers, Sequences

CONSTANTS
    MaxKeys,        \* bound of the model: keys the player sends
    MaxRuns,        \* bound of the model: starts of the engine
    MaxFeed         \* states the connection holds before a send blocks

ASSUME SessionAssumption == MaxKeys \in Nat /\ MaxRuns \in Nat /\ MaxFeed \in Nat

VARIABLES
    \* the engine process
    engine,         \* "down", "load", "poll", "send", or "ending": in stop()
    run,
    offer,          \* the current petition
    savedOffer,     \* the petition in the database, 0 for none
    accepted,       \* accept has returned
    \* the connection and the mailbox
    link,           \* "none", "open", "ended" by the engine or "left" by the UI
    feed,           \* states sent and not yet received
    channel, slot, taken,
    \* the UI's connection thread
    rx,
    lastState,      \* conn.last_state
    \* the UI's main loop
    ui,
    current, drawn, \* whether current_state and last_state are conn.last_state
    screen,         \* the state that was rendered last
    \* history
    keys,           \* every key sent: the run it is sent to, and what the player saw
    met             \* the petition each answer was applied to, 0 for none

engineVars == <<engine, run, offer, savedOffer, accepted, met>>
boxVars == <<channel, slot, taken>>
receiverVars == <<rx, lastState>>
mainVars == <<ui, current, drawn, screen, keys>>
sessionVars == <<engineVars, link, feed, boxVars, receiverVars, mainVars>>

Box == INSTANCE Mailbox WITH Messages <- 1 .. MaxKeys

NoState == [run |-> 0, offer |-> 0, answered |-> 0]

SessionInit ==
    /\ engine = "down" /\ run = 0 /\ offer = 0 /\ savedOffer = 0 /\ accepted = FALSE
    /\ link = "none" /\ feed = << >>
    /\ Box!MailboxInit
    /\ rx = "connect" /\ lastState = NoState
    /\ ui = "check" /\ current = "none" /\ drawn = "none" /\ screen = NoState
    /\ keys = << >> /\ met = [k \in 1 .. MaxKeys |-> 0]

-----------------------------------------------------------------------------
(* The engine process: main and GameService. *)
Boot ==
    /\ engine = "down" /\ run < MaxRuns
    /\ engine' = "load" /\ run' = run + 1
    /\ UNCHANGED <<offer, savedOffer, accepted, met, link, feed, boxVars, receiverVars, mainVars>>

(* The socket listens already.  A save whose petition was lost between two   *)
(* of its writes leaves the one the constructor drew.                        *)
StartGame ==
    /\ engine = "load"
    /\ engine' = "poll"
    /\ IF savedOffer # 0
       THEN offer' = savedOffer /\ UNCHANGED savedOffer
       ELSE offer' = -run /\ savedOffer' \in {-run, 0}
    /\ UNCHANGED <<run, accepted, met, link, feed, boxVars, receiverVars, mainVars>>

PollNothing ==
    /\ engine = "poll" /\ slot = 0
    /\ engine' = "send"
    /\ UNCHANGED <<run, offer, savedOffer, accepted, met, link, feed, boxVars,
                   receiverVars, mainVars>>

(* readPlayerInput.  Accepting a building that is too dear leaves its        *)
(* petition; a save may be complete, fail, or fail after the old petition    *)
(* was deleted.                                                              *)
Answer ==
    /\ met' = [met EXCEPT ![slot] = offer]
    /\ offer' \in {slot, offer}
    /\ UNCHANGED savedOffer

Save ==
    /\ savedOffer' \in {offer, savedOffer, 0}
    /\ UNCHANGED <<offer, met>>

PollKey ==
    /\ engine = "poll" /\ Box!Take
    /\ engine' = "send"
    /\ Answer \/ Save
    /\ UNCHANGED <<run, accepted, link, feed, receiverVars, mainVars>>

Answered == IF taken = << >> THEN 0 ELSE taken[Len(taken)]

GameState == [run |-> run, offer |-> offer, answered |-> Answered]

(* Mutation: the socket does not block. *)
SendAlways ==
    /\ engine = "send"
    /\ engine' = "poll"
    /\ feed' = IF accepted /\ link = "open" THEN Append(feed, GameState) ELSE feed
    /\ UNCHANGED <<run, offer, savedOffer, accepted, met, link, boxVars, receiverVars, mainVars>>

(* sendGameState: it blocks while the UI does not read. *)
SendState ==
    /\ engine = "send"
    /\ engine' = "poll"
    /\ IF accepted /\ link = "open"
       THEN Len(feed) < MaxFeed /\ feed' = Append(feed, GameState)
       ELSE UNCHANGED feed
    /\ UNCHANGED <<run, offer, savedOffer, accepted, met, link, boxVars, receiverVars, mainVars>>

(* The process is gone with its state, and the kernel closes its connection. *)
Exit ==
    /\ engine' = "down" /\ offer' = 0 /\ accepted' = FALSE
    /\ link' = CASE link = "open" -> "ended" [] link = "left" -> "none" [] OTHER -> link
    /\ channel' = << >> /\ slot' = 0 /\ taken' = << >>
    /\ UNCHANGED <<run, savedOffer, met, feed, receiverVars, mainVars>>

(* Killed, or main returned and stop() found the listener already at its end. *)
EngineExits == engine \in {"load", "poll", "send"} /\ Exit

(* main returned, and stop() waits for a listener that is blocked. *)
EngineEnds ==
    /\ engine \in {"load", "poll", "send"}
    /\ engine' = "ending"
    /\ UNCHANGED <<run, offer, savedOffer, accepted, met, link, feed, boxVars,
                   receiverVars, mainVars>>

(* A connection or a message wakes the listener, which finds running false.  *)
ListenerWakes ==
    /\ engine = "ending"
    /\ IF accepted THEN channel # << >> \/ link = "left" ELSE link \in {"open", "left"}
    /\ Exit

(* The listener thread. *)
AcceptConnection ==
    /\ engine \in {"load", "poll", "send"}
    /\ ~accepted /\ link \in {"open", "left"}
    /\ accepted' = TRUE
    /\ UNCHANGED <<engine, run, offer, savedOffer, met, link, feed, boxVars,
                   receiverVars, mainVars>>

StoreAction ==
    /\ engine \in {"load", "poll", "send"} /\ accepted
    /\ Box!Store
    /\ UNCHANGED <<engineVars, link, feed, receiverVars, mainVars>>

-----------------------------------------------------------------------------
(* The UI's connection thread, _run and _recv_loop; a daemon, it ends with   *)
(* the main loop.                                                            *)
Receiver(pc) == rx = pc /\ ui # "gone"

(* The kernel completes one connection a run before anyone accepts it. *)
Connect ==
    /\ Receiver("connect")
    /\ engine # "down" /\ ~accepted
    /\ rx' = "receive" /\ link' = "open"
    /\ UNCHANGED <<engineVars, feed, boxVars, lastState, mainVars>>

ConnectFails ==
    /\ Receiver("connect")
    /\ rx' = "sleep"
    /\ UNCHANGED <<engineVars, link, feed, boxVars, lastState, mainVars>>

(* The object that was the last state no longer is. *)
Aged(s) == IF s = "last" THEN "older" ELSE s

ReceiveState ==
    /\ Receiver("receive") /\ feed # << >>
    /\ lastState' = Head(feed) /\ feed' = Tail(feed)
    /\ current' = Aged(current) /\ drawn' = Aged(drawn)
    /\ UNCHANGED <<engineVars, link, boxVars, rx, ui, screen, keys>>

(* A connection that was reset loses what has not been read. *)
ReceiveEnd ==
    /\ Receiver("receive") /\ link = "ended"
    /\ rx' = "finally" /\ feed' = << >>
    /\ UNCHANGED <<engineVars, link, boxVars, lastState, mainVars>>

Finally ==
    /\ Receiver("finally")
    /\ rx' = "sleep" /\ link' = "none"
    /\ UNCHANGED <<engineVars, feed, boxVars, lastState, mainVars>>

Sleep ==
    /\ Receiver("sleep")
    /\ rx' = "connect"
    /\ UNCHANGED <<engineVars, link, feed, boxVars, lastState, mainVars>>

-----------------------------------------------------------------------------
(* Mutation: the screen is drawn when the first state comes, and not again. *)
CheckDrawsOnce ==
    /\ ui = "check"
    /\ \/ ui' = "render" /\ drawn = "none"
          /\ current' = IF lastState = NoState THEN "none" ELSE "last"
       \/ ui' = "key" /\ current' = "none" /\ drawn # "none"
    /\ UNCHANGED <<engineVars, link, feed, boxVars, receiverVars, drawn, screen, keys>>

(* The UI's main loop.  It draws again when last_state is not the object     *)
(* that conn.last_state is now, or while a flash message is up.              *)
Check ==
    /\ ui = "check"
    /\ \/ ui' = "render" /\ current' = IF lastState = NoState THEN "none" ELSE "last"
       \/ ui' = "key" /\ current' = "none" /\ drawn = "last"
    /\ UNCHANGED <<engineVars, link, feed, boxVars, receiverVars, drawn, screen, keys>>

Render ==
    /\ ui = "render"
    /\ screen' = lastState /\ ui' = "assign"
    /\ UNCHANGED <<engineVars, link, feed, boxVars, receiverVars, current, drawn, keys>>

(* Mutation: last_state = conn.last_state. *)
AssignLatest ==
    /\ ui = "assign"
    /\ drawn' = IF lastState = NoState THEN "none" ELSE "last"
    /\ current' = "none"
    /\ ui' = "key"
    /\ UNCHANGED <<engineVars, link, feed, boxVars, receiverVars, screen, keys>>

(* last_state = current_state, what conn.last_state was before the render;   *)
(* current_state is not read again before Check sets it.                     *)
Assign ==
    /\ ui = "assign"
    /\ drawn' = current /\ current' = "none"
    /\ ui' = "key"
    /\ UNCHANGED <<engineVars, link, feed, boxVars, receiverVars, screen, keys>>

(* getch returns ERR, or a key without a meaning, or one that send_action    *)
(* loses: it has no connection, or one whose end recv has yet to report.     *)
KeyNone ==
    /\ ui = "key"
    /\ ui' = "check"
    /\ UNCHANGED <<engineVars, link, feed, boxVars, receiverVars, current, drawn, screen, keys>>

(* The player has waited for the effect of every earlier key: the screen     *)
(* shows this run of the engine, after it polled the key sent before.        *)
Unhurried ==
    /\ screen.run = run
    /\ \A k \in DOMAIN keys : keys[k].run = run => k <= screen.answered

(* send_action on an open connection. *)
Press ==
    /\ ui = "key" /\ link = "open" /\ Len(keys) < MaxKeys
    /\ keys' = Append(keys, [run |-> run, saw |-> IF Unhurried THEN screen.offer ELSE 0])
    /\ Box!Send(Len(keys) + 1)
    /\ ui' = "check"
    /\ UNCHANGED <<engineVars, link, feed, receiverVars, current, drawn, screen>>

(* The end of the UI process takes its threads and its state with it. *)
Quit ==
    /\ ui = "key"
    /\ ui' = "gone" /\ rx' = "connect"
    /\ lastState' = NoState /\ screen' = NoState /\ current' = "none" /\ drawn' = "none"
    /\ link' = (IF link = "open" THEN "left" ELSE "none") /\ feed' = << >>
    /\ UNCHANGED <<engineVars, boxVars, keys>>

-----------------------------------------------------------------------------
EngineStep == StartGame \/ PollNothing \/ PollKey \/ SendState
EngineLife == Boot \/ EngineExits \/ EngineEnds \/ ListenerWakes
ListenerStep == AcceptConnection \/ StoreAction
ReceiverStep == Connect \/ ConnectFails \/ ReceiveState \/ ReceiveEnd \/ Finally \/ Sleep
MainStep == Check \/ Render \/ Assign \/ KeyNone \/ Press

SessionNext ==
    \/ EngineStep
    \/ EngineLife
    \/ ListenerStep
    \/ ReceiverStep
    \/ MainStep
    \/ Quit

SessionSpec == SessionInit /\ [][SessionNext]_sessionVars

(* Every thread runs on; starting the engine, ending it and quitting are up  *)
(* to its users.                                                             *)
FairSessionSpec ==
    /\ SessionSpec
    /\ WF_sessionVars(EngineStep)
    /\ WF_sessionVars(ListenerStep)
    /\ WF_sessionVars(ReceiverStep)
    /\ WF_sessionVars(MainStep)

-----------------------------------------------------------------------------
Petitions == -MaxRuns .. MaxKeys

GameStates == [run : 0 .. MaxRuns, offer : Petitions, answered : 0 .. MaxKeys]

(* Each variable has its type. *)
SessionTypeOK ==
    /\ engine \in {"down", "load", "poll", "send", "ending"}
    /\ run \in 0 .. MaxRuns
    /\ offer \in Petitions /\ savedOffer \in Petitions
    /\ accepted \in BOOLEAN
    /\ link \in {"none", "open", "ended", "left"}
    /\ feed \in Seq(GameStates) /\ Len(feed) <= MaxFeed
    /\ channel \in Seq(1 .. MaxKeys) /\ slot \in 0 .. MaxKeys /\ taken \in Seq(1 .. MaxKeys)
    /\ rx \in {"connect", "receive", "finally", "sleep"}
    /\ lastState \in GameStates /\ screen \in GameStates
    /\ ui \in {"check", "render", "assign", "key", "gone"}
    /\ current \in {"none", "last", "older"} /\ drawn \in {"none", "last", "older"}
    /\ keys \in Seq([run : 1 .. MaxRuns, saw : Petitions]) /\ Len(keys) <= MaxKeys
    /\ met \in [1 .. MaxKeys -> Petitions]

(* GameService.cpp:150-172, where an answer names no petition: it is applied *)
(* to the petition the player saw if the player waited for the screen to     *)
(* catch up, whatever the threads, the network and restarts do in between.   *)
UnhurriedAnswerMeetsItsPetition ==
    \A k \in DOMAIN keys :
        keys[k].saw # 0 /\ met[k] # 0 => met[k] = keys[k].saw

(* eco_city_tmp_ui.py:551-557, "Only redraw when something changes": every   *)
(* state received is drawn, or one after it, even if it arrives while the    *)
(* one before it is being drawn and is the last one ever.                    *)
ScreenCatchesUp == []<>(screen = lastState \/ ui = "gone")

(* A key sent shows its effect: the screen comes to show a state the engine  *)
(* sent after it polled the key, or a newer one that replaced it, unless the *)
(* engine or the UI ends.                                                    *)
KeyIsAnswered ==
    \A k \in 1 .. MaxKeys :
        k \in DOMAIN keys ~>
            \/ engine \in {"down", "ending"} \/ ui = "gone"
            \/ k \in DOMAIN keys /\
                 \/ run # keys[k].run
                 \/ screen.run = run /\ screen.answered >= k
=============================================================================
