-------------------------- MODULE PlayerSessionProofs --------------------------
(***************************************************************************)
(* Proofs about PlayerSession, for any number of keys, of runs of the      *)
(* engine, and any length of the connection.                               *)
(*                                                                         *)
(* An unhurried answer meets its petition because nothing can come between *)
(* the screen and the engine: the state on the screen was sent after every *)
(* earlier key of this run had been polled, or had been replaced in the    *)
(* mailbox by a later one, so that the key is the oldest one pending, and  *)
(* the offer does not change until it is polled.  The invariant says this  *)
(* of every state under way, and that no state and no key outlives the run *)
(* of the engine it belongs to.                                            *)
(***************************************************************************)
EXTENDS PlayerSession, TLAPS

Order == INSTANCE MailboxProofs WITH Messages <- 1 .. MaxKeys

(* In the channel or in the slot, or taken already. *)
Pending(m) == m # 0 /\ (m = slot \/ \E c \in DOMAIN channel : m = channel[c])
Taken(m) == \E t \in DOMAIN taken : m = taken[t]

(* The mailbox holds keys of this run only: it goes with the process. *)
MailboxOfThisRun ==
    /\ \A m : Pending(m) \/ Taken(m) => m \in DOMAIN keys /\ keys[m].run = run
    /\ engine = "down" => channel = << >> /\ slot = 0 /\ taken = << >>

RunsBegin ==
    /\ engine # "down" => run >= 1
    /\ link = "open" => engine # "down"
    /\ \A k \in DOMAIN keys : keys[k].run <= run

IsUnderWay(s) == s = lastState \/ s = screen \/ \E i \in DOMAIN feed : s = feed[i]

(* A state of this run that answers the last key polled shows the offer. *)
Truthful(s) ==
    /\ s.run <= run
    /\ engine = "load" => s.run < run
    /\ engine # "down" /\ s.run = run =>
         s.answered <= Answered /\ (s.answered = Answered => s.offer = offer)

StatesAreTruthful == \A s : IsUnderWay(s) => Truthful(s)

(* Before the game is loaded the player has seen nothing of it. *)
NothingSeenYet ==
    engine = "load" => \A k \in DOMAIN keys : keys[k].run = run => keys[k].saw = 0

OldestMeetsItsPetition ==
    \A k \in DOMAIN keys : Pending(k) /\ keys[k].saw # 0 =>
        /\ keys[k].saw = offer
        /\ \A m : Pending(m) => k <= m

UnsentIsUnmet == \A k \in 1 .. MaxKeys : k > Len(keys) => met[k] = 0

(* The inductive invariant. *)
SessionInv ==
    /\ SessionTypeOK
    /\ Order!MailboxInv
    /\ MailboxOfThisRun
    /\ RunsBegin
    /\ StatesAreTruthful
    /\ NothingSeenYet
    /\ OldestMeetsItsPetition
    /\ UnsentIsUnmet
    /\ UnhurriedAnswerMeetsItsPetition

-----------------------------------------------------------------------------
(* The types. *)
LEMMA LastOfSequence ==
    ASSUME NEW S, NEW s \in Seq(S), s # << >>
    PROVE  s[Len(s)] \in S
OBVIOUS

LEMMA GameStateType ==
    ASSUME SessionTypeOK
    PROVE  Answered \in 0 .. MaxKeys /\ GameState \in GameStates
<1>1. Answered \in 0 .. MaxKeys
  <2>1. CASE taken = << >>
    BY <2>1, SessionAssumption DEF Answered
  <2>2. CASE taken # << >>
    <3>1. taken \in Seq(1 .. MaxKeys)
      BY DEF SessionTypeOK
    <3>2. taken[Len(taken)] \in 1 .. MaxKeys
      BY <2>2, <3>1, LastOfSequence
    <3> QED
      BY <2>2, <3>2 DEF Answered
  <2> QED
    BY <2>1, <2>2
<1> QED
  BY <1>1 DEF SessionTypeOK, GameState, GameStates

LEMMA EntryOfSequence ==
    ASSUME NEW S, NEW s \in Seq(S), NEW i \in DOMAIN s
    PROVE  s[i] \in S
OBVIOUS

LEMMA StatesAndKeysTypes ==
    ASSUME SessionTypeOK
    PROVE  /\ run \in Nat
           /\ \A k \in DOMAIN keys : keys[k].run \in Nat
           /\ \A s : IsUnderWay(s) => s \in GameStates /\ s.run \in Nat /\ s.answered \in Nat
<1>1. run \in Nat /\ keys \in Seq([run : 1 .. MaxRuns, saw : Petitions])
  BY DEF SessionTypeOK
<1>2. \A k \in DOMAIN keys : keys[k] \in [run : 1 .. MaxRuns, saw : Petitions]
  BY <1>1, EntryOfSequence
<1>3. feed \in Seq(GameStates) /\ lastState \in GameStates /\ screen \in GameStates
  BY DEF SessionTypeOK
<1>4. \A s : IsUnderWay(s) => s \in GameStates
  BY <1>3, EntryOfSequence DEF IsUnderWay
<1>5. \A s \in GameStates : s.run \in Nat /\ s.answered \in Nat
  BY DEF GameStates
<1> QED
  BY <1>1, <1>2, <1>4, <1>5

LEMMA NoStateType == NoState \in GameStates
BY SessionAssumption DEF NoState, GameStates, Petitions

LEMMA EngineTypes ==
    ASSUME SessionInv, EngineStep \/ EngineLife \/ ListenerStep
    PROVE  SessionTypeOK'
<1> USE DEF SessionTypeOK
<1>1. SessionTypeOK /\ RunsBegin
  BY DEF SessionInv
<1>2. CASE StartGame
  <2>1. run \in 1 .. MaxRuns
    BY <1>1, <1>2 DEF StartGame, RunsBegin
  <2>2. -run \in Petitions /\ 0 \in Petitions
    BY <2>1, SessionAssumption DEF Petitions
  <2>3. offer' \in Petitions /\ savedOffer' \in Petitions
    BY <1>1, <1>2, <2>2 DEF StartGame
  <2> QED
    BY <1>1, <1>2, <2>3 DEF StartGame, boxVars, receiverVars, mainVars
<1>3. CASE PollNothing
  BY <1>1, <1>3 DEF PollNothing, boxVars, receiverVars, mainVars
<1>4. CASE PollKey
  <2>1. slot \in 1 .. MaxKeys /\ slot \in Petitions /\ 0 \in Petitions
    BY <1>1, <1>4, SessionAssumption DEF PollKey, Box!Take, Petitions
  <2>2. taken' = Append(taken, slot) /\ slot' = 0 /\ channel' = channel
    BY <1>4 DEF PollKey, Box!Take
  <2>3. taken' \in Seq(1 .. MaxKeys)
    BY <1>1, <2>1, <2>2
  <2>4. /\ offer' \in Petitions /\ savedOffer' \in Petitions
        /\ met' \in [1 .. MaxKeys -> Petitions]
    <3>1. CASE Answer
      BY <1>1, <2>1, <3>1 DEF Answer
    <3>2. CASE Save
      BY <1>1, <2>1, <3>2 DEF Save
    <3> QED
      BY <1>4, <3>1, <3>2 DEF PollKey
  <2>5. slot' \in 0 .. MaxKeys
    BY <2>2, SessionAssumption
  <2> QED
    BY <1>1, <1>4, <2>2, <2>3, <2>4, <2>5 DEF PollKey, receiverVars, mainVars
<1>5. CASE SendState
  <2>1. feed' \in Seq(GameStates) /\ Len(feed') <= MaxFeed
    <3>1. CASE accepted /\ link = "open"
      <4>1. Len(feed) < MaxFeed /\ feed' = Append(feed, GameState)
        BY <1>5, <3>1 DEF SendState
      <4> QED
        BY <1>1, <4>1, GameStateType, SessionAssumption
    <3>2. CASE ~(accepted /\ link = "open")
      BY <1>1, <1>5, <3>2 DEF SendState
    <3> QED
      BY <3>1, <3>2
  <2> QED
    BY <1>1, <1>5, <2>1 DEF SendState, boxVars, receiverVars, mainVars
<1>6. CASE Boot
  <2>1. run' \in 0 .. MaxRuns
    BY <1>1, <1>6, SessionAssumption DEF Boot
  <2> QED
    BY <1>1, <1>6, <2>1 DEF Boot, boxVars, receiverVars, mainVars
<1>7. CASE EngineExits \/ ListenerWakes
  <2>1. Exit
    BY <1>7 DEF EngineExits, ListenerWakes
  <2>2. offer' \in Petitions /\ slot' \in 0 .. MaxKeys
    BY <2>1, SessionAssumption DEF Exit, Petitions
  <2>3. link' \in {"none", "open", "ended", "left"}
    BY <1>1, <2>1 DEF Exit
  <2>4. channel' = << >> /\ taken' = << >> /\ engine' = "down" /\ accepted' = FALSE
    BY <2>1 DEF Exit
  <2>5. UNCHANGED <<run, savedOffer, met, feed, rx, lastState, ui, current, drawn, screen, keys>>
    BY <2>1 DEF Exit, receiverVars, mainVars
  <2>6. channel' \in Seq(1 .. MaxKeys) /\ taken' \in Seq(1 .. MaxKeys)
    BY <2>4
  <2>7. feed' \in Seq(GameStates) /\ Len(feed') <= MaxFeed
    BY <1>1, <2>5
  <2>8. /\ engine' \in {"down", "load", "poll", "send", "ending"} /\ accepted' \in BOOLEAN
        /\ run' \in 0 .. MaxRuns /\ savedOffer' \in Petitions
    BY <1>1, <2>4, <2>5
  <2>9. /\ rx' \in {"connect", "receive", "finally", "sleep"}
        /\ lastState' \in GameStates /\ screen' \in GameStates
        /\ ui' \in {"check", "render", "assign", "key", "gone"}
        /\ current' \in {"none", "last", "older"} /\ drawn' \in {"none", "last", "older"}
        /\ keys' \in Seq([run : 1 .. MaxRuns, saw : Petitions]) /\ Len(keys') <= MaxKeys
        /\ met' \in [1 .. MaxKeys -> Petitions]
    BY <1>1, <2>5
  <2> QED
    BY <2>2, <2>3, <2>6, <2>7, <2>8, <2>9
<1>8. CASE EngineEnds
  BY <1>1, <1>8 DEF EngineEnds, boxVars, receiverVars, mainVars
<1>9. CASE AcceptConnection
  BY <1>1, <1>9 DEF AcceptConnection, boxVars, receiverVars, mainVars
<1>10. CASE StoreAction
  <2>1. /\ channel # << >> /\ channel' = Tail(channel) /\ slot' = Head(channel)
        /\ taken' = taken
    BY <1>10 DEF StoreAction, Box!Store
  <2>2. channel' \in Seq(1 .. MaxKeys) /\ slot' \in 0 .. MaxKeys
    BY <1>1, <2>1, SessionAssumption
  <2> QED
    BY <1>1, <1>10, <2>1, <2>2 DEF StoreAction, engineVars, receiverVars, mainVars
<1> QED
  BY <1>2, <1>3, <1>4, <1>5, <1>6, <1>7, <1>8, <1>9, <1>10 DEF EngineStep, EngineLife, ListenerStep

LEMMA UITypes ==
    ASSUME SessionInv, ReceiverStep \/ MainStep \/ Quit
    PROVE  SessionTypeOK'
<1> USE DEF SessionTypeOK
<1>1. SessionTypeOK /\ RunsBegin
  BY DEF SessionInv
<1>2. CASE Connect \/ ConnectFails \/ Finally \/ Sleep
  BY <1>1, <1>2 DEF Connect, ConnectFails, Finally, Sleep, Receiver, engineVars, boxVars, mainVars
<1>3. CASE ReceiveState
  <2>1. feed # << >> /\ lastState' = Head(feed) /\ feed' = Tail(feed)
    BY <1>3 DEF ReceiveState
  <2>2. lastState' \in GameStates /\ feed' \in Seq(GameStates) /\ Len(feed') <= MaxFeed
    BY <1>1, <2>1, SessionAssumption
  <2> QED
    BY <1>1, <1>3, <2>2 DEF ReceiveState, Aged, engineVars, boxVars
<1>4. CASE ReceiveEnd
  BY <1>1, <1>4, SessionAssumption DEF ReceiveEnd, engineVars, boxVars, mainVars
<1>5. CASE Check \/ Render \/ Assign \/ KeyNone
  BY <1>1, <1>5 DEF Check, Render, Assign, KeyNone, engineVars, boxVars, receiverVars
<1>6. CASE Press
  <2>1. run \in 1 .. MaxRuns /\ screen.offer \in Petitions /\ 0 \in Petitions
    BY <1>1, <1>6, SessionAssumption DEF Press, RunsBegin, GameStates, Petitions
  <2>2. keys' \in Seq([run : 1 .. MaxRuns, saw : Petitions]) /\ Len(keys') <= MaxKeys
    BY <1>1, <1>6, <2>1, SessionAssumption DEF Press
  <2>3. Len(keys) + 1 \in 1 .. MaxKeys
    BY <1>1, <1>6, SessionAssumption DEF Press
  <2>4. channel' \in Seq(1 .. MaxKeys) /\ UNCHANGED <<slot, taken>>
    BY <1>1, <1>6, <2>3 DEF Press, Box!Send
  <2> QED
    BY <1>1, <1>6, <2>2, <2>4 DEF Press, engineVars, receiverVars
<1>7. CASE Quit
  BY <1>1, <1>7, SessionAssumption, NoStateType DEF Quit, engineVars, boxVars
<1> QED
  BY <1>2, <1>3, <1>4, <1>5, <1>6, <1>7 DEF ReceiverStep, MainStep

-----------------------------------------------------------------------------
(* The mailbox, which is emptied when the process ends and follows its       *)
(* specification otherwise.                                                  *)
LEMMA MailboxStep ==
    ASSUME SessionInv, [Box!MailboxNext]_(Box!boxVars)
    PROVE  Order!MailboxInv'
<1>1. 1 .. MaxKeys \subseteq Nat \ {0}
  OBVIOUS
<1>2. [Order!MailboxNext]_(Order!boxVars)
  BY DEF Box!MailboxNext, Box!boxVars, Box!Send, Box!Store, Box!Take,
         Order!MailboxNext, Order!boxVars, Order!Send, Order!Store, Order!Take
<1> QED
  BY <1>1, <1>2, Order!MailboxStepInv DEF SessionInv

LEMMA EmptyMailbox ==
    ASSUME channel = << >>, slot = 0, taken = << >>
    PROVE  Order!MailboxInv
BY DEF Order!MailboxInv, Order!Ascending

(* The empty state belongs to no run of the engine. *)
LEMMA NoStateIsTruthful ==
    ASSUME SessionTypeOK, RunsBegin
    PROVE  Truthful(NoState)
BY DEF Truthful, NoState, RunsBegin, SessionTypeOK

-----------------------------------------------------------------------------
(* A step that leaves keys, petitions and mailbox alone and puts nothing     *)
(* under way but truthful states.                                            *)
LEMMA QuietStepInv ==
    ASSUME SessionInv, SessionTypeOK',
           UNCHANGED <<run, offer, channel, slot, taken, keys, met>>,
           engine' = engine \/ (engine # "down" /\ engine' \in {"poll", "send", "ending"}),
           link' = "open" => engine' # "down",
           \A s : IsUnderWay(s)' => IsUnderWay(s) \/ Truthful(s)'
    PROVE  SessionInv'
<1>1. Order!MailboxInv'
  BY DEF SessionInv, Order!MailboxInv, Order!Ascending
<1>2. \A m : (Pending(m)' <=> Pending(m)) /\ (Taken(m)' <=> Taken(m))
  BY DEF Pending, Taken
<1>3. MailboxOfThisRun' /\ RunsBegin' /\ NothingSeenYet'
  BY <1>2 DEF SessionInv, MailboxOfThisRun, RunsBegin, NothingSeenYet
<1>4. OldestMeetsItsPetition' /\ UnsentIsUnmet' /\ UnhurriedAnswerMeetsItsPetition'
  BY <1>2 DEF SessionInv, OldestMeetsItsPetition, UnsentIsUnmet, UnhurriedAnswerMeetsItsPetition
<1>5. \A s : Truthful(s) => Truthful(s)'
  BY DEF Truthful, Answered
<1>6. StatesAreTruthful'
  BY <1>5 DEF SessionInv, StatesAreTruthful
<1> QED
  BY <1>1, <1>3, <1>4, <1>6 DEF SessionInv

LEMMA EngineQuietSteps ==
    ASSUME SessionInv, PollNothing \/ SendState \/ EngineEnds \/ AcceptConnection
    PROVE  SessionInv'
<1>1. SessionTypeOK'
  BY EngineTypes DEF EngineStep, EngineLife, ListenerStep
<1>2. UNCHANGED <<run, offer, channel, slot, taken, keys, met, link, lastState, screen>>
  BY DEF PollNothing, SendState, EngineEnds, AcceptConnection, boxVars, receiverVars, mainVars
<1>3. engine' = engine \/ (engine # "down" /\ engine' \in {"poll", "send", "ending"})
  BY DEF PollNothing, SendState, EngineEnds, AcceptConnection
<1>4. link' = "open" => engine' # "down"
  BY <1>2, <1>3 DEF SessionInv, RunsBegin
<1>5. ASSUME NEW s, IsUnderWay(s)'
      PROVE  IsUnderWay(s) \/ Truthful(s)'
  <2>1. CASE UNCHANGED feed
    BY <1>2, <1>5, <2>1 DEF IsUnderWay
  <2>2. CASE SendState /\ feed' = Append(feed, GameState)
    <3>1. feed \in Seq(GameStates)
      BY DEF SessionInv, SessionTypeOK
    <3>2. \A i \in DOMAIN feed' : (i \in DOMAIN feed /\ feed'[i] = feed[i]) \/ feed'[i] = GameState
      BY <2>2, <3>1
    <3>3. IsUnderWay(s) \/ s = GameState
      BY <1>2, <1>5, <3>2 DEF IsUnderWay
    <3>4. Truthful(GameState)'
      BY <1>2, <2>2, GameStateType
         DEF Truthful, GameState, Answered, SendState, SessionInv, SessionTypeOK
    <3>5. GameState' = GameState
      BY <1>2 DEF GameState, Answered
    <3> QED
      BY <3>3, <3>4, <3>5 DEF Truthful
  <2> QED
    BY <2>1, <2>2 DEF PollNothing, SendState, EngineEnds, AcceptConnection
<1>6. \A s : IsUnderWay(s)' => IsUnderWay(s) \/ Truthful(s)'
  BY <1>5
<1>7. UNCHANGED <<run, offer, channel, slot, taken, keys, met>>
  BY <1>2
<1> QED
  BY <1>1, <1>3, <1>4, <1>6, <1>7, QuietStepInv

LEMMA UIQuietSteps ==
    ASSUME SessionInv, ReceiverStep \/ Check \/ Render \/ Assign \/ KeyNone \/ Quit
    PROVE  SessionInv'
<1>1. SessionTypeOK'
  BY UITypes DEF MainStep
<1>2. UNCHANGED <<engine, run, offer, channel, slot, taken, keys, met>>
  BY DEF ReceiverStep, Connect, ConnectFails, ReceiveState, ReceiveEnd, Finally, Sleep, Check,
         Render, Assign, KeyNone, Quit, engineVars, boxVars, receiverVars, mainVars
<1>3. link' = "open" => engine' # "down"
  BY <1>2 DEF SessionInv, RunsBegin,
     ReceiverStep, Connect, ConnectFails, ReceiveState, ReceiveEnd, Finally, Sleep, Check,
     Render, Assign, KeyNone, Quit
<1>4. ASSUME NEW s, IsUnderWay(s)'
      PROVE  IsUnderWay(s) \/ Truthful(s)'
  <2>1. CASE Connect \/ ConnectFails \/ Finally \/ Sleep \/ Check \/ Assign \/ KeyNone
    BY <1>4, <2>1 DEF IsUnderWay, Connect, ConnectFails, Finally, Sleep, Check, Assign, KeyNone,
                      receiverVars, mainVars
  <2>2. CASE ReceiveState
    <3>1. /\ feed \in Seq(GameStates) /\ feed # << >>
          /\ lastState' = Head(feed) /\ feed' = Tail(feed) /\ screen' = screen
      BY <2>2 DEF ReceiveState, SessionInv, SessionTypeOK
    <3>2. \A i \in DOMAIN feed' : i + 1 \in DOMAIN feed /\ feed'[i] = feed[i + 1]
      BY <3>1
    <3>3. 1 \in DOMAIN feed /\ lastState' = feed[1]
      BY <3>1
    <3> QED
      BY <1>4, <3>1, <3>2, <3>3 DEF IsUnderWay
  <2>3. CASE ReceiveEnd
    BY <1>4, <2>3 DEF IsUnderWay, ReceiveEnd, mainVars
  <2>4. CASE Render
    BY <1>4, <2>4 DEF IsUnderWay, Render, receiverVars
  <2>5. CASE Quit
    <3>1. s = NoState
      BY <1>4, <2>5 DEF IsUnderWay, Quit
    <3>2. Truthful(NoState)
      BY NoStateIsTruthful DEF SessionInv
    <3> QED
      BY <1>2, <3>1, <3>2 DEF Truthful, Answered
  <2> QED
    BY <2>1, <2>2, <2>3, <2>4, <2>5 DEF ReceiverStep
<1>5. \A s : IsUnderWay(s)' => IsUnderWay(s) \/ Truthful(s)'
  BY <1>4
<1>6. engine' = engine \/ (engine # "down" /\ engine' \in {"poll", "send", "ending"})
  BY <1>2
<1>7. UNCHANGED <<run, offer, channel, slot, taken, keys, met>>
  BY <1>2
<1> QED
  BY <1>1, <1>3, <1>5, <1>6, <1>7, QuietStepInv

-----------------------------------------------------------------------------
(* The steps that change the run, the petition or the mailbox. *)
LEMMA BootInv ==
    ASSUME SessionInv, Boot
    PROVE  SessionInv'
<1>1. SessionTypeOK'
  BY EngineTypes DEF EngineLife
<1>2. /\ engine = "down" /\ engine' = "load" /\ run' = run + 1 /\ run \in Nat
      /\ UNCHANGED <<offer, met, link, feed, channel, slot, taken, lastState, screen, keys>>
  BY DEF Boot, boxVars, receiverVars, mainVars, SessionInv, SessionTypeOK
<1>3. channel = << >> /\ slot = 0 /\ taken = << >>
  BY <1>2 DEF SessionInv, MailboxOfThisRun
<1>4. \A m : ~Pending(m) /\ ~Taken(m) /\ ~Pending(m)' /\ ~Taken(m)'
  BY <1>2, <1>3 DEF Pending, Taken
<1>5. Order!MailboxInv' /\ MailboxOfThisRun' /\ OldestMeetsItsPetition'
  BY <1>2, <1>3, <1>4, EmptyMailbox
     DEF MailboxOfThisRun, OldestMeetsItsPetition, Order!MailboxInv, Order!Ascending
<1>6. \A k \in DOMAIN keys : keys[k].run \in Nat /\ keys[k].run <= run
  BY StatesAndKeysTypes DEF SessionInv, RunsBegin
<1>7. RunsBegin'
  BY <1>2, <1>6 DEF RunsBegin
<1>8. NothingSeenYet'
  BY <1>2, <1>6 DEF NothingSeenYet
<1>9. \A s : IsUnderWay(s) => s.run \in Nat
  BY StatesAndKeysTypes DEF SessionInv
<1>10. StatesAreTruthful'
  BY <1>2, <1>9 DEF SessionInv, StatesAreTruthful, IsUnderWay, Truthful
<1>11. UnsentIsUnmet' /\ UnhurriedAnswerMeetsItsPetition'
  BY <1>2 DEF SessionInv, UnsentIsUnmet, UnhurriedAnswerMeetsItsPetition
<1> QED
  BY <1>1, <1>5, <1>7, <1>8, <1>10, <1>11 DEF SessionInv

LEMMA StartGameInv ==
    ASSUME SessionInv, StartGame
    PROVE  SessionInv'
<1>1. SessionTypeOK'
  BY EngineTypes DEF EngineStep
<1>2. /\ engine = "load" /\ engine' = "poll"
      /\ UNCHANGED <<run, met, link, feed, channel, slot, taken, lastState, screen, keys>>
  BY DEF StartGame, boxVars, receiverVars, mainVars
<1>3. \A m : (Pending(m)' <=> Pending(m)) /\ (Taken(m)' <=> Taken(m))
  BY <1>2 DEF Pending, Taken
<1>4. Order!MailboxInv'
  BY <1>2 DEF SessionInv, Order!MailboxInv, Order!Ascending
<1>5. MailboxOfThisRun' /\ RunsBegin' /\ NothingSeenYet'
  BY <1>2, <1>3 DEF SessionInv, MailboxOfThisRun, RunsBegin, NothingSeenYet
<1>6. StatesAreTruthful'
  <2>1. \A s : IsUnderWay(s) => s.run \in Nat /\ run \in Nat
    BY StatesAndKeysTypes DEF SessionInv
  <2> QED
    BY <1>2, <2>1 DEF SessionInv, StatesAreTruthful, IsUnderWay, Truthful
<1>7. OldestMeetsItsPetition'
  <2>1. \A k \in DOMAIN keys : Pending(k) => keys[k].run = run /\ keys[k].saw = 0
    BY <1>2 DEF SessionInv, MailboxOfThisRun, NothingSeenYet
  <2> QED
    BY <1>2, <1>3, <2>1 DEF OldestMeetsItsPetition
<1>8. UnsentIsUnmet' /\ UnhurriedAnswerMeetsItsPetition'
  BY <1>2 DEF SessionInv, UnsentIsUnmet, UnhurriedAnswerMeetsItsPetition
<1> QED
  BY <1>1, <1>4, <1>5, <1>6, <1>7, <1>8 DEF SessionInv

LEMMA ExitInv ==
    ASSUME SessionInv, EngineExits \/ ListenerWakes
    PROVE  SessionInv'
<1>1. SessionTypeOK'
  BY EngineTypes DEF EngineLife
<1>2. /\ engine' = "down" /\ link' # "open"
      /\ channel' = << >> /\ slot' = 0 /\ taken' = << >>
      /\ UNCHANGED <<run, met, feed, lastState, screen, keys>>
  BY DEF EngineExits, ListenerWakes, Exit, receiverVars, mainVars, SessionInv, SessionTypeOK
<1>3. \A m : ~Pending(m)' /\ ~Taken(m)'
  BY <1>2 DEF Pending, Taken
<1>4. Order!MailboxInv'
  BY <1>2 DEF Order!MailboxInv, Order!Ascending
<1>5. MailboxOfThisRun' /\ OldestMeetsItsPetition' /\ RunsBegin' /\ NothingSeenYet'
  BY <1>2, <1>3 DEF SessionInv, MailboxOfThisRun, OldestMeetsItsPetition, RunsBegin, NothingSeenYet
<1>6. StatesAreTruthful'
  BY <1>2 DEF SessionInv, StatesAreTruthful, IsUnderWay, Truthful
<1>7. UnsentIsUnmet' /\ UnhurriedAnswerMeetsItsPetition'
  BY <1>2 DEF SessionInv, UnsentIsUnmet, UnhurriedAnswerMeetsItsPetition
<1> QED
  BY <1>1, <1>4, <1>5, <1>6, <1>7 DEF SessionInv

(* What is stored was pending; what it replaces is pending no longer. *)
LEMMA StoreActionInv ==
    ASSUME SessionInv, StoreAction
    PROVE  SessionInv'
<1>1. SessionTypeOK'
  BY EngineTypes DEF ListenerStep
<1>2. /\ channel \in Seq(1 .. MaxKeys) /\ channel # << >>
      /\ slot' = Head(channel) /\ channel' = Tail(channel) /\ taken' = taken
      /\ engine \in {"load", "poll", "send"}
      /\ UNCHANGED <<engine, run, offer, met, link, feed, lastState, screen, keys>>
  BY DEF StoreAction, Box!Store, engineVars, receiverVars, mainVars, SessionInv, SessionTypeOK
<1>3. Order!MailboxInv'
  BY MailboxStep DEF StoreAction, Box!MailboxNext
<1>4. \A c \in DOMAIN channel' : c + 1 \in DOMAIN channel /\ channel'[c] = channel[c + 1]
  BY <1>2
<1>5. 1 \in DOMAIN channel /\ slot' = channel[1]
  BY <1>2
<1>6. \A m : (Pending(m)' => Pending(m)) /\ (Taken(m)' <=> Taken(m))
  BY <1>2, <1>4, <1>5 DEF Pending, Taken
<1>7. MailboxOfThisRun' /\ RunsBegin' /\ NothingSeenYet' /\ OldestMeetsItsPetition'
  BY <1>2, <1>6
     DEF SessionInv, MailboxOfThisRun, RunsBegin, NothingSeenYet, OldestMeetsItsPetition
<1>8. StatesAreTruthful'
  BY <1>2 DEF SessionInv, StatesAreTruthful, IsUnderWay, Truthful, Answered
<1>9. UnsentIsUnmet' /\ UnhurriedAnswerMeetsItsPetition'
  BY <1>2 DEF SessionInv, UnsentIsUnmet, UnhurriedAnswerMeetsItsPetition
<1> QED
  BY <1>1, <1>3, <1>7, <1>8, <1>9 DEF SessionInv

(* The offer changes, and with it what the states under way are measured     *)
(* by: the key polled is newer than all they answer.                         *)
LEMMA PollKeyInv ==
    ASSUME SessionInv, PollKey
    PROVE  SessionInv'
<1>1. SessionTypeOK'
  BY EngineTypes DEF EngineStep
<1>2. /\ engine = "poll" /\ engine' = "send" /\ slot # 0
      /\ taken' = Append(taken, slot) /\ slot' = 0 /\ channel' = channel
      /\ UNCHANGED <<run, link, feed, lastState, screen, keys>>
  BY DEF PollKey, Box!Take, receiverVars, mainVars
<1>3. /\ channel \in Seq(1 .. MaxKeys) /\ slot \in 1 .. MaxKeys /\ taken \in Seq(1 .. MaxKeys)
      /\ \A c \in DOMAIN channel : slot < channel[c]
      /\ \A t \in DOMAIN taken : taken[t] < slot
  BY <1>2 DEF SessionInv, SessionTypeOK, Order!MailboxInv
<1>4. Order!MailboxInv'
  BY MailboxStep DEF PollKey, Box!MailboxNext
<1>5. \A t \in DOMAIN taken' : taken'[t] = slot \/ (t \in DOMAIN taken /\ taken'[t] = taken[t])
  BY <1>2, <1>3
<1>6. /\ Pending(slot)
      /\ \A m : Pending(m)' => Pending(m) /\ slot < m
      /\ \A m : Taken(m)' => m = slot \/ Taken(m)
  BY <1>2, <1>3, <1>5 DEF Pending, Taken
<1>7. MailboxOfThisRun' /\ RunsBegin' /\ NothingSeenYet'
  BY <1>2, <1>6 DEF SessionInv, MailboxOfThisRun, RunsBegin, NothingSeenYet
<1>8. slot \in DOMAIN keys /\ slot <= Len(keys)
  BY <1>3, <1>6 DEF SessionInv, MailboxOfThisRun, SessionTypeOK
<1>9. Answered' = slot /\ Answered < slot
  BY <1>2, <1>3, LastOfSequence DEF Answered
<1>10. StatesAreTruthful'
  <2>1. ASSUME NEW s, IsUnderWay(s)
        PROVE  Truthful(s)'
    <3>1. Truthful(s) /\ s.answered \in Nat /\ Answered \in Nat
      BY <2>1, StatesAndKeysTypes, GameStateType DEF SessionInv, StatesAreTruthful
    <3>2. s.run <= run /\ (s.run = run => s.answered < slot)
      BY <1>2, <1>3, <1>9, <3>1 DEF Truthful
    <3> QED
      BY <1>2, <1>3, <1>9, <3>1, <3>2 DEF Truthful
  <2> QED
    BY <1>2, <2>1 DEF StatesAreTruthful, IsUnderWay
<1>11. OldestMeetsItsPetition'
  <2>1. \A k \in DOMAIN keys : Pending(k)' => keys[k].saw = 0
    <3>1. ASSUME NEW k \in DOMAIN keys, Pending(k)', keys[k].saw # 0
          PROVE  FALSE
      <4>1. Pending(k) /\ slot < k /\ k <= slot /\ k \in Nat
        BY <1>6, <3>1 DEF SessionInv, OldestMeetsItsPetition, SessionTypeOK
      <4> QED
        BY <1>3, <4>1
    <3> QED
      BY <3>1
  <2> QED
    BY <1>2, <2>1 DEF OldestMeetsItsPetition
<1>12. met' = met \/ met' = [met EXCEPT ![slot] = offer]
  BY DEF PollKey, Answer, Save
<1>13. met \in [1 .. MaxKeys -> Petitions]
  BY DEF SessionInv, SessionTypeOK
<1>14. \A k \in 1 .. MaxKeys : met'[k] = met[k] \/ (k = slot /\ met'[k] = offer)
  BY <1>12, <1>13
<1>15. UnsentIsUnmet'
  BY <1>2, <1>3, <1>8, <1>14 DEF SessionInv, UnsentIsUnmet, SessionTypeOK
<1>16. UnhurriedAnswerMeetsItsPetition'
  <2>1. keys[slot].saw # 0 => keys[slot].saw = offer
    BY <1>6, <1>8 DEF SessionInv, OldestMeetsItsPetition
  <2>2. ASSUME NEW k \in DOMAIN keys, keys[k].saw # 0, met'[k] # 0
        PROVE  met'[k] = keys[k].saw
    <3>1. CASE met'[k] = met[k]
      BY <2>2, <3>1 DEF SessionInv, UnhurriedAnswerMeetsItsPetition
    <3>2. CASE k = slot /\ met'[k] = offer
      BY <2>1, <2>2, <3>2
    <3>3. k \in 1 .. MaxKeys
      <4>1. keys \in Seq([run : 1 .. MaxRuns, saw : Petitions]) /\ Len(keys) <= MaxKeys
        BY DEF SessionInv, SessionTypeOK
      <4>2. Len(keys) \in Nat /\ k \in 1 .. Len(keys)
        BY <2>2, <4>1
      <4> QED
        BY <4>1, <4>2, SessionAssumption
    <3> QED
      BY <1>14, <3>1, <3>2, <3>3
  <2> QED
    BY <1>2, <2>2 DEF UnhurriedAnswerMeetsItsPetition
<1> QED
  BY <1>1, <1>4, <1>7, <1>10, <1>11, <1>15, <1>16 DEF SessionInv

(* A key pressed over a screen that has caught up is the only one pending,   *)
(* and the screen shows the offer.                                           *)
LEMMA PressInv ==
    ASSUME SessionInv, Press
    PROVE  SessionInv'
<1> DEFINE new == Len(keys) + 1
           sent == [run |-> run, saw |-> IF Unhurried THEN screen.offer ELSE 0]
<1>1. SessionTypeOK'
  BY UITypes DEF MainStep
<1>2. /\ keys' = Append(keys, sent) /\ channel' = Append(channel, new)
      /\ link = "open" /\ Len(keys) < MaxKeys
      /\ slot < new /\ \A c \in DOMAIN channel : channel[c] < new
      /\ UNCHANGED <<engine, run, offer, met, link, feed, slot, taken, lastState, screen>>
  BY DEF Press, Box!Send, engineVars, receiverVars
<1>3. /\ keys \in Seq([run : 1 .. MaxRuns, saw : Petitions])
      /\ channel \in Seq(1 .. MaxKeys) /\ slot \in 0 .. MaxKeys /\ taken \in Seq(1 .. MaxKeys)
      /\ run \in Nat /\ new \in 1 .. MaxKeys
  BY <1>2, SessionAssumption DEF SessionInv, SessionTypeOK
<1>4. engine # "down"
  BY <1>2 DEF SessionInv, RunsBegin
<1>5. Order!MailboxInv'
  BY <1>3, MailboxStep DEF Press, Box!MailboxNext
<1>6. /\ DOMAIN keys' = DOMAIN keys \union {new} /\ new \notin DOMAIN keys
      /\ keys'[new] = sent /\ \A k \in DOMAIN keys : keys'[k] = keys[k]
      /\ \A k \in DOMAIN keys : k < new
  BY <1>2, <1>3
<1>7. \A c \in DOMAIN channel' : channel'[c] = new \/ (c \in DOMAIN channel /\ channel'[c] = channel[c])
  BY <1>2, <1>3
<1>8. \A m : (Pending(m)' => m = new \/ Pending(m)) /\ (Taken(m)' <=> Taken(m))
  BY <1>2, <1>7 DEF Pending, Taken
<1>9. MailboxOfThisRun'
  BY <1>2, <1>4, <1>6, <1>8 DEF SessionInv, MailboxOfThisRun
<1>10. RunsBegin'
  BY <1>2, <1>3, <1>6 DEF SessionInv, RunsBegin
<1>11. StatesAreTruthful'
  BY <1>2 DEF SessionInv, StatesAreTruthful, IsUnderWay, Truthful, Answered
<1>12. Truthful(screen) /\ screen.answered \in Nat /\ Answered \in Nat
  BY StatesAndKeysTypes, GameStateType DEF SessionInv, StatesAreTruthful, IsUnderWay
<1>13. NothingSeenYet'
  <2>1. engine = "load" => sent.saw = 0
    BY <1>3, <1>12, StatesAndKeysTypes DEF Unhurried, Truthful, IsUnderWay, SessionInv
  <2> QED
    BY <1>2, <1>6, <2>1 DEF SessionInv, NothingSeenYet
<1>14. ASSUME Unhurried
       PROVE  screen.offer = offer /\ \A m : ~Pending(m)
  <2>1. screen.run = run /\ \A k \in DOMAIN keys : keys[k].run = run => k <= screen.answered
    BY <1>14 DEF Unhurried
  <2>2. \A m : Pending(m) \/ Taken(m) => m <= screen.answered
    BY <2>1 DEF SessionInv, MailboxOfThisRun
  <2>3. screen.answered <= Answered /\ (screen.answered = Answered => screen.offer = offer)
    BY <1>4, <1>12, <2>1 DEF Truthful
  <2>4. Answered = 0 \/ Taken(Answered)
    BY <1>3 DEF Answered, Taken
  <2>5. screen.answered = Answered
    BY <1>12, <2>2, <2>3, <2>4
  <2>6. \A m : Pending(m) => m \in Nat /\ Answered < m
    <3>1. /\ \A c \in DOMAIN channel : slot < channel[c]
          /\ \A t \in DOMAIN taken : slot # 0 => taken[t] < slot
          /\ \A c \in DOMAIN channel, t \in DOMAIN taken : taken[t] < channel[c]
      BY DEF SessionInv, Order!MailboxInv
    <3>2. /\ \A c \in DOMAIN channel : channel[c] \in 1 .. MaxKeys
          /\ \A t \in DOMAIN taken : taken[t] \in 1 .. MaxKeys
      BY <1>3, EntryOfSequence
    <3>3. \A m : Pending(m) => m \in 1 .. MaxKeys
      BY <1>3, <3>2 DEF Pending
    <3>4. CASE taken = << >>
      BY <3>3, <3>4 DEF Answered
    <3>5. CASE taken # << >>
      <4>1. Len(taken) \in DOMAIN taken /\ Answered = taken[Len(taken)]
        BY <1>3, <3>5 DEF Answered
      <4>2. ASSUME NEW m, Pending(m)
            PROVE  Answered < m
        BY <3>1, <4>1, <4>2 DEF Pending
      <4> QED
        BY <3>3, <4>2
    <3> QED
      BY <3>4, <3>5
  <2> QED
    BY <1>12, <2>2, <2>3, <2>5, <2>6
<1>15. OldestMeetsItsPetition'
  <2>1. ASSUME NEW k \in DOMAIN keys', Pending(k)', keys'[k].saw # 0
        PROVE  keys'[k].saw = offer /\ \A m : Pending(m)' => k <= m
    <3>1. CASE k = new
      <4>1. Unhurried /\ keys'[k].saw = screen.offer
        BY <1>6, <2>1, <3>1
      <4> QED
        BY <1>3, <1>8, <1>14, <3>1, <4>1
    <3>2. CASE k \in DOMAIN keys
      <4>1. Pending(k) /\ keys'[k] = keys[k] /\ k < new /\ k \in Nat
        BY <1>3, <1>6, <1>8, <2>1, <3>2
      <4>2. keys[k].saw = offer /\ \A m : Pending(m) => k <= m
        BY <2>1, <3>2, <4>1 DEF SessionInv, OldestMeetsItsPetition
      <4> QED
        BY <1>3, <1>8, <4>1, <4>2
    <3> QED
      BY <1>6, <3>1, <3>2
  <2> QED
    BY <1>2, <2>1 DEF OldestMeetsItsPetition
<1>16. UnsentIsUnmet'
  BY <1>2, <1>3 DEF SessionInv, UnsentIsUnmet
<1>17. UnhurriedAnswerMeetsItsPetition'
  <2>1. met[new] = 0
    BY <1>2, <1>3 DEF SessionInv, UnsentIsUnmet
  <2> QED
    BY <1>2, <1>6, <2>1 DEF SessionInv, UnhurriedAnswerMeetsItsPetition
<1> QED
  BY <1>1, <1>5, <1>9, <1>10, <1>11, <1>13, <1>15, <1>16, <1>17 DEF SessionInv

-----------------------------------------------------------------------------
(* The invariant, which holds of the session whatever its bounds.            *)
THEOREM SessionInvariant == SessionSpec => []SessionInv
<1>1. SessionInit => SessionInv
  <2> SUFFICES ASSUME SessionInit PROVE SessionInv
    OBVIOUS
  <2>1. /\ channel = << >> /\ slot = 0 /\ taken = << >> /\ feed = << >> /\ keys = << >>
        /\ engine = "down" /\ link = "none" /\ run = 0
        /\ lastState = NoState /\ screen = NoState /\ met = [k \in 1 .. MaxKeys |-> 0]
    BY DEF SessionInit, Box!MailboxInit
  <2>2. 0 \in Petitions
    BY SessionAssumption DEF Petitions
  <2>3. SessionTypeOK
    <3>1. met \in [1 .. MaxKeys -> Petitions]
      BY <2>1, <2>2
    <3>2. /\ feed \in Seq(GameStates) /\ channel \in Seq(1 .. MaxKeys)
          /\ taken \in Seq(1 .. MaxKeys) /\ keys \in Seq([run : 1 .. MaxRuns, saw : Petitions])
          /\ Len(feed) = 0 /\ Len(keys) = 0
      BY <2>1
    <3>3. /\ engine = "down" /\ run \in 0 .. MaxRuns /\ offer \in Petitions
          /\ savedOffer \in Petitions /\ accepted = FALSE /\ link = "none"
          /\ slot \in 0 .. MaxKeys /\ rx = "connect" /\ ui = "check"
          /\ lastState \in GameStates /\ screen \in GameStates
          /\ current = "none" /\ drawn = "none"
      BY <2>1, <2>2, NoStateType, SessionAssumption DEF SessionInit
    <3>4. Len(feed) <= MaxFeed /\ Len(keys) <= MaxKeys
      BY <3>2, SessionAssumption
    <3> QED
      BY <3>1, <3>2, <3>3, <3>4 DEF SessionTypeOK
  <2>4. \A m : ~Pending(m) /\ ~Taken(m)
    BY <2>1 DEF Pending, Taken
  <2>5. MailboxOfThisRun /\ RunsBegin /\ NothingSeenYet /\ OldestMeetsItsPetition
    BY <2>1, <2>4 DEF MailboxOfThisRun, RunsBegin, NothingSeenYet, OldestMeetsItsPetition
  <2>6. StatesAreTruthful
    BY <2>1, <2>3, <2>5, NoStateIsTruthful DEF StatesAreTruthful, IsUnderWay
  <2>7. UnsentIsUnmet /\ UnhurriedAnswerMeetsItsPetition
    BY <2>1 DEF UnsentIsUnmet, UnhurriedAnswerMeetsItsPetition
  <2> QED
    BY <2>1, <2>3, <2>5, <2>6, <2>7, EmptyMailbox DEF SessionInv
<1>2. SessionInv /\ [SessionNext]_sessionVars => SessionInv'
  <2> SUFFICES ASSUME SessionInv, [SessionNext]_sessionVars PROVE SessionInv'
    OBVIOUS
  <2>1. CASE EngineStep
    BY <2>1, StartGameInv, EngineQuietSteps, PollKeyInv DEF EngineStep
  <2>2. CASE EngineLife
    BY <2>2, BootInv, ExitInv, EngineQuietSteps DEF EngineLife
  <2>3. CASE ListenerStep
    BY <2>3, EngineQuietSteps, StoreActionInv DEF ListenerStep
  <2>4. CASE ReceiverStep \/ MainStep \/ Quit
    BY <2>4, UIQuietSteps, PressInv DEF MainStep
  <2>5. CASE UNCHANGED sessionVars
    <3>1. SessionTypeOK'
      BY <2>5 DEF sessionVars, engineVars, boxVars, receiverVars, mainVars, SessionInv, SessionTypeOK
    <3>2. UNCHANGED <<engine, run, offer, channel, slot, taken, keys, met, link, feed,
                      lastState, screen>>
      BY <2>5 DEF sessionVars, engineVars, boxVars, receiverVars, mainVars
    <3>3. link' = "open" => engine' # "down"
      BY <3>2 DEF SessionInv, RunsBegin
    <3>4. \A s : IsUnderWay(s)' => IsUnderWay(s) \/ Truthful(s)'
      BY <3>2 DEF IsUnderWay
    <3> QED
      BY <3>1, <3>2, <3>3, <3>4, QuietStepInv
  <2> QED
    BY <2>1, <2>2, <2>3, <2>4, <2>5 DEF SessionNext
<1> QED
  BY <1>1, <1>2, PTL DEF SessionSpec

(* Every variable of the session keeps its type. *)
THEOREM SessionTypeCorrect == SessionSpec => []SessionTypeOK
<1>1. SessionInv => SessionTypeOK
  BY DEF SessionInv
<1> QED
  BY <1>1, SessionInvariant, PTL

(* An answer given to a screen that had caught up is applied to the petition *)
(* that the screen showed (GameService.cpp:150-172).                         *)
THEOREM UnhurriedAnswersMeet == SessionSpec => []UnhurriedAnswerMeetsItsPetition
<1>1. SessionInv => UnhurriedAnswerMeetsItsPetition
  BY DEF SessionInv
<1> QED
  BY <1>1, SessionInvariant, PTL
=============================================================================
