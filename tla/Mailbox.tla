------------------------------- MODULE Mailbox -------------------------------
(***************************************************************************)
(* What the server promises of the actions the UI sends: they wait in the  *)
(* order sent, the oldest one moves into a slot and replaces what the slot *)
(* holds, and the engine takes what is in the slot.  Messages are numbers, *)
(* in the order they are sent; 0 is the empty slot.                        *)
(***************************************************************************)
EXTENDS Integers, Sequences

CONSTANT Messages       \* the numbers a message may have, all above 0

VARIABLES
    channel,            \* sent and not yet in the slot
    slot,
    taken               \* every message taken, in the order taken

boxVars == <<channel, slot, taken>>

MailboxInit == channel = << >> /\ slot = 0 /\ taken = << >>

Send(m) ==
    /\ \A i \in DOMAIN channel : channel[i] < m
    /\ \A i \in DOMAIN taken : taken[i] < m
    /\ slot < m
    /\ channel' = Append(channel, m)
    /\ UNCHANGED <<slot, taken>>

Store ==
    /\ channel # << >>
    /\ slot' = Head(channel)
    /\ channel' = Tail(channel)
    /\ UNCHANGED taken

(* Mutation: the slot is not emptied. *)
TakeAndKeep ==
    /\ slot # 0
    /\ taken' = Append(taken, slot)
    /\ UNCHANGED <<channel, slot>>

Take ==
    /\ slot # 0
    /\ taken' = Append(taken, slot)
    /\ slot' = 0
    /\ UNCHANGED channel

MailboxNext == (\E m \in Messages : Send(m)) \/ Store \/ Take

MailboxSpec == MailboxInit /\ [][MailboxNext]_boxVars

(* No message is taken twice, nor after one that was sent later. *)
TakenInOrder == \A i, j \in DOMAIN taken : i < j => taken[i] < taken[j]
=============================================================================
