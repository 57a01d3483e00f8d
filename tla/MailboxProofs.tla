---------------------------- MODULE MailboxProofs ----------------------------
(* What the abstract mailbox guarantees, whatever the messages. *)
EXTENDS Mailbox, TLAPS

(* Every message is above the number of the empty slot. *)
LEMMA EntriesArePositive ==
    ASSUME Messages \subseteq Nat \ {0}, NEW s \in Seq(Messages), NEW c \in DOMAIN s
    PROVE  0 < s[c]
<1>1. s[c] \in Messages
  OBVIOUS
<1>2. s[c] \in Nat /\ s[c] # 0
  BY <1>1
<1>. QED
  BY <1>2

(* The numbers grow from what was taken over the slot to the end of the      *)
(* channel.                                                                  *)
Ascending(s) == \A i, j \in DOMAIN s : i < j => s[i] < s[j]

MailboxInv ==
    /\ channel \in Seq(Messages) /\ slot \in Messages \union {0} /\ taken \in Seq(Messages)
    /\ Ascending(channel) /\ Ascending(taken)
    /\ \A c \in DOMAIN channel : slot < channel[c]
    /\ \A t \in DOMAIN taken : slot # 0 => taken[t] < slot
    /\ \A c \in DOMAIN channel, t \in DOMAIN taken : taken[t] < channel[c]

(* Sending, storing and taking keep the order. *)
LEMMA MailboxStepInv ==
    ASSUME Messages \subseteq Nat \ {0}, MailboxInv, [MailboxNext]_boxVars
    PROVE  MailboxInv'
<1>. USE DEF MailboxInv, Ascending
<1>1. ASSUME NEW m \in Messages, Send(m)
      PROVE  MailboxInv'
  BY <1>1 DEF Send
<1>2. CASE Store
  BY <1>2 DEF Store
<1>3. CASE Take
  <2>1. taken' = Append(taken, slot) /\ slot' = 0 /\ channel' = channel /\ slot \in Messages
    BY <1>3 DEF Take
  <2>2. taken' \in Seq(Messages)
    BY <2>1
  <2>3. /\ DOMAIN taken' = 1 .. Len(taken) + 1
        /\ taken'[Len(taken) + 1] = slot
        /\ \A t \in 1 .. Len(taken) : taken'[t] = taken[t] /\ t \in DOMAIN taken
    BY <2>1
  <2>4. Ascending(taken')
    BY <2>1, <2>3
  <2>5. \A c \in DOMAIN channel' : slot' < channel'[c]
    BY <2>1, EntriesArePositive
  <2>6. \A c \in DOMAIN channel', t \in DOMAIN taken' : taken'[t] < channel'[c]
    BY <2>1, <2>3
  <2>. QED
    BY <2>1, <2>2, <2>4, <2>5, <2>6
<1>4. CASE UNCHANGED boxVars
  BY <1>4 DEF boxVars
<1>. QED
  BY <1>1, <1>2, <1>3, <1>4 DEF MailboxNext

(* A message taken was sent after every message taken before it: none is     *)
(* taken twice, and none is overtaken.                                       *)
THEOREM MessagesTakenInOrder ==
    ASSUME Messages \subseteq Nat \ {0}
    PROVE  MailboxSpec => []TakenInOrder
<1>1. MailboxInit => MailboxInv
  BY DEF MailboxInit, MailboxInv, Ascending
<1>2. MailboxInv /\ [MailboxNext]_boxVars => MailboxInv'
  BY MailboxStepInv
<1>3. MailboxInv => TakenInOrder
  BY DEF MailboxInv, TakenInOrder, Ascending
<1>. QED
  BY <1>1, <1>2, <1>3, PTL DEF MailboxSpec
=============================================================================
