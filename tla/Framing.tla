------------------------------- MODULE Framing -------------------------------
(***************************************************************************)
(* The byte streams between the engine and the UI: every message is a      *)
(* length of four bytes, the highest first, and so many bytes, which the   *)
(* reader collects from whatever chunks recv returns.  Down the stream go  *)
(* game states, from sendBytes to _recvall and parse_game_state; up go     *)
(* actions, from send_action to receiveMessage, ParseFromString and the    *)
(* mailbox.  The two streams share nothing, so a behaviour is that of one. *)
(***************************************************************************)
EXTENDS GameMessages, UICodec

CONSTANTS
    GameScripts,        \* bound of the model: sequences of games whose states are sent
    KeyScripts          \* bound of the model: sequences of keys the player presses

(* The numbers of a game are ints. *)
IsGame(game) ==
    /\ DOMAIN game.buildings \subseteq BuildingPool
    /\ \A t \in DOMAIN game.buildings : game.buildings[t] \in Int32
    /\ game.offer \in Optional([id : Int32, type : BuildingPool, ticks : Int32])
    /\ DOMAIN game.value \subseteq ResourceTypes
    /\ \A r \in DOMAIN game.value : game.value[r] \in Int32

ASSUME GameScriptsAssumption ==
    \A games \in GameScripts :
        /\ games \in Seq({games[i] : i \in DOMAIN games})
        /\ \A i \in DOMAIN games : IsGame(games[i])

ASSUME KeyScriptsAssumption == KeyScripts \subseteq Seq({"a", "r", "s"})

VARIABLES
    direction,          \* "down" or "up"
    script,             \* the games or the keys
    sent,               \* how many of them have been handed to the writer
    writer,             \* "idle", "payload" between the engine's two sends, or "closed"
    outgoing,           \* what the second send will send
    wire,               \* the bytes under way
    reader,             \* "header", "payload", "message" or "ended"
    buffer,             \* the bytes read of the current header or payload
    expected,           \* the length the header gave
    delivered,          \* the messages read, as bytes
    mailbox,            \* pendingAction, a sequence of at most one
    polled              \* what readPlayerInput made of each action polled

writerVars == <<sent, writer, outgoing>>
readerVars == <<reader, buffer, expected, delivered>>
mailboxVars == <<mailbox, polled>>
framingVars == <<direction, script, wire, writerVars, readerVars, mailboxVars>>

MaxLength == 1024 * 1024

Header(length) ==
    <<length \div 16777216, (length \div 65536) % 256, (length \div 256) % 256, length % 256>>

(* A first byte other than 0 is beyond MaxLength whatever follows. *)
LengthIn(header) ==
    IF header[1] # 0 THEN MaxLength + 1
    ELSE 65536 * header[2] + 256 * header[3] + header[4]

Legal(length) == length # 0 /\ length <= MaxLength

-----------------------------------------------------------------------------
FramingInit ==
    /\ \/ direction = "down" /\ script \in GameScripts
       \/ direction = "up" /\ script \in KeyScripts
    /\ sent = 0 /\ writer = "idle" /\ outgoing = << >> /\ wire = << >>
    /\ reader = "header" /\ buffer = << >> /\ expected = 0 /\ delivered = << >>
    /\ mailbox = << >> /\ polled = << >>

Writes(d) == direction = d /\ writer = "idle" /\ sent < Len(script) /\ sent' = sent + 1

(* sendGameState, and the first send of sendBytes. *)
SendHeader ==
    /\ Writes("down")
    /\ LET state == BuildGameState(script[sent + 1])
       IN  \E countKeys \in SetToSeqs(DOMAIN state.building_counts),
              resourceKeys \in SetToSeqs(DOMAIN state.resources) :
              outgoing' = SerializeGameState(state, countKeys, resourceKeys)
    /\ wire' = wire \o Header(Len(outgoing'))
    /\ writer' = "payload"
    /\ UNCHANGED <<direction, script, readerVars, mailboxVars>>

SendPayload ==
    /\ writer = "payload"
    /\ wire' = wire \o outgoing
    /\ outgoing' = << >> /\ writer' = "idle"
    /\ UNCHANGED <<direction, script, sent, readerVars, mailboxVars>>

(* send_action. *)
SendAction ==
    /\ Writes("up")
    /\ LET payload == EncodeKey(script[sent + 1])
       IN  wire' = wire \o Header(Len(payload)) \o payload
    /\ UNCHANGED <<direction, script, writer, outgoing, readerVars, mailboxVars>>

(* The writer ends or leaves, with or without a reset; a reset drops what    *)
(* the reader has not read.                                                  *)
CloseWriter ==
    /\ writer # "closed"
    /\ writer' = "closed" /\ outgoing' = << >>
    /\ wire' \in {wire, << >>}
    /\ UNCHANGED <<direction, script, sent, readerVars, mailboxVars>>

(* One recv of at most n bytes. *)
Receive(n) ==
    /\ wire # << >>
    /\ \E k \in 1 .. (IF n < Len(wire) THEN n ELSE Len(wire)) :
         /\ buffer' = buffer \o SubSeq(wire, 1, k)
         /\ wire' = SubSeq(wire, k + 1, Len(wire))

ReceiveHeader ==
    /\ reader = "header" /\ Len(buffer) < 4
    /\ Receive(4 - Len(buffer))
    /\ UNCHANGED <<direction, script, writerVars, reader, expected, delivered, mailboxVars>>

ReadLength ==
    /\ reader = "header" /\ Len(buffer) = 4
    /\ expected' = LengthIn(buffer) /\ buffer' = << >>
    /\ reader' = IF Legal(expected') THEN "payload" ELSE "ended"
    /\ UNCHANGED <<direction, script, wire, writerVars, delivered, mailboxVars>>

(* Mutation: "received <= length". *)
ReceivePayloadAndOne ==
    /\ reader = "payload"
    /\ Receive(expected + 1 - Len(buffer))
    /\ reader' = IF Len(buffer') = expected + 1 THEN "message" ELSE "payload"
    /\ UNCHANGED <<direction, script, writerVars, expected, delivered, mailboxVars>>

ReceivePayload ==
    /\ reader = "payload"
    /\ Receive(expected - Len(buffer))
    /\ reader' = IF Len(buffer') = expected THEN "message" ELSE "payload"
    /\ UNCHANGED <<direction, script, writerVars, expected, delivered, mailboxVars>>

(* recv returns 0, or fails; a message cut short is dropped. *)
ReceiveNothing ==
    /\ reader \in {"header", "payload"} /\ wire = << >> /\ writer = "closed"
    /\ reader' = "ended" /\ buffer' = << >>
    /\ UNCHANGED <<direction, script, wire, writerVars, expected, delivered, mailboxVars>>

(* _recv_loop: the state is kept, to be shown.  Its bytes are kept here, and *)
(* decoded where a property looks at it.                                     *)
TakeState ==
    /\ direction = "down" /\ reader = "message"
    /\ delivered' = Append(delivered, buffer)
    /\ reader' = "header" /\ buffer' = << >>
    /\ UNCHANGED <<direction, script, wire, writerVars, expected, mailboxVars>>

(* listenLoop: an action that does not parse is dropped. *)
StoreAction ==
    /\ direction = "up" /\ reader = "message"
    /\ reader' = "header" /\ buffer' = << >>
    /\ delivered' = Append(delivered, buffer)
    /\ mailbox' = IF ParsesAsUIAction(buffer)
                  THEN <<CopyUIAction(Mutable(mailbox, NewUIAction),
                                      ParseUIAction(NewUIAction, buffer))>>
                  ELSE mailbox
    /\ UNCHANGED <<direction, script, wire, writerVars, expected, polled>>

PollAction ==
    /\ mailbox # << >>
    /\ polled' = Append(polled, ActionRead(mailbox[1]))
    /\ mailbox' = << >>
    /\ UNCHANGED <<direction, script, wire, writerVars, readerVars>>

ReceiveMessage ==
    \/ ReceiveHeader
    \/ ReadLength
    \/ ReceivePayload
    \/ ReceiveNothing

FramingNext ==
    \/ SendHeader
    \/ SendPayload
    \/ SendAction
    \/ CloseWriter
    \/ ReceiveMessage
    \/ TakeState
    \/ StoreAction
    \/ PollAction

FramingSpec == FramingInit /\ [][FramingNext]_framingVars

(* The thread that reads runs on, and the engine does not stop between its   *)
(* two sends unless it ends.  TakeState or StoreAction is possible whenever  *)
(* the reader has a message and takes it: the last conjunct is their weak    *)
(* fairness, written so that TLC need not decode messages to evaluate it.    *)
FairFramingSpec ==
    /\ FramingSpec
    /\ WF_framingVars(ReceiveMessage)
    /\ WF_framingVars(SendPayload)
    /\ []<>(reader # "message")

-----------------------------------------------------------------------------
FramingTypeOK ==
    /\ direction \in {"down", "up"}
    /\ sent \in 0 .. Len(script)
    /\ writer \in {"idle", "payload", "closed"}
    /\ reader \in {"header", "payload", "message", "ended"}
    /\ outgoing \in Seq(Byte) /\ wire \in Seq(Byte) /\ buffer \in Seq(Byte)
    /\ expected \in 0 .. MaxLength + 1
    /\ mailbox \in Optional(UIActionMessage)
    /\ writer = "payload" =>
         /\ IsGameState(BuildGameState(script[sent]))
         /\ LET state == BuildGameState(script[sent])
            IN  Len(outgoing) = GameStateSize(state, SetToSeq(DOMAIN state.building_counts),
                                                     SetToSeq(DOMAIN state.resources))

(* What a game looks like to the engine, in the terms of the screen. *)
View(game) ==
    [resources |-> {<<r, game.value[r]>> : r \in DOMAIN game.value},
     buildings |-> {<<"Unspecified", 0>>} \union {<<t, game.buildings[t]>> : t \in DOMAIN game.buildings},
     petition |-> [i \in DOMAIN game.offer |->
         LET p == game.offer[i]
             effects == Catalog[p.type].effects
         IN  [id |-> p.id, build |-> p.type, cost |-> Catalog[p.type].cost, ticks |-> p.ticks,
              effects |-> {<<r, effects[r]>> : r \in {q \in ResourceTypes : effects[q] # 0}}]]]

(* Each state the UI takes from the stream shows the game as it was when the *)
(* engine sent it, in the order sent: through map fields in any order, zeros *)
(* that are left out, negative effects, and chunks of any size.              *)
Shown(i) == Screen(ParseGameState(delivered[i]))

ScreenShowsGame ==
    direction = "down" => \A i \in DOMAIN delivered : Shown(i) = View(script[i])

(* What a key asks for. *)
Meaning(key) ==
    [response |-> CASE key = "a" -> "accept" [] key = "r" -> "reject" [] key = "s" -> "none",
     save |-> key = "s"]

(* The engine reads each key as the player meant it, a rejection (whose      *)
(* field is a default) included.                                             *)
KeysAreUnderstood ==
    direction = "up" => \A i \in DOMAIN delivered : 
        ActionRead(ParseUIAction(NewUIAction, delivered[i])) = Meaning(script[i])

(* What the engine polls is what one key asked for: nothing of an action     *)
(* that the mailbox held before is left in the one that replaced it.         *)
PolledIsOneKey ==
    \A i \in DOMAIN polled : \E j \in 1 .. sent : polled[i] = Meaning(script[j])

(* No message of the game looks like the end of the connection, by being     *)
(* empty or too long or by arriving in pieces.                               *)
EndsOnlyWhenClosed == reader = "ended" => writer = "closed"

(* A message is delivered without waiting for the next one.                  *)
SentIsDelivered ==
    Len(delivered) < sent ~> (Len(delivered) = sent \/ writer = "closed")
=============================================================================
