---------------------------- MODULE ChatIdentity ----------------------------
(***************************************************************************)
(* The chat of two matched users has no document of its own: each phone    *)
(* computes its id, chatId(me, other), from the two user ids and their     *)
(* hash codes (ui/threads/widget_matches.dart:113-120).  An id is modelled *)
(* as the pair it joins: uids contain no '-'.                              *)
(***************************************************************************)
EXTENDS Integers, TLAPS

CONSTANTS
    Users,      \* user ids
    HashCode    \* HashCode[u]: String.hashCode

ChatId(me, other) ==
    IF HashCode[me] <= HashCode[other] THEN <<me, other>> ELSE <<other, me>>

-----------------------------------------------------------------------------
(***************************************************************************)
(* Two users write to one chat: each computes the id that the other does,  *)
(* as long as the hash codes tell the two apart (widget_matches.dart:115). *)
(***************************************************************************)
THEOREM ChatIdShared ==
    ASSUME NEW a \in Users, NEW b \in Users,
           HashCode[a] \in Int, HashCode[b] \in Int,
           HashCode[a] = HashCode[b] => a = b
    PROVE  ChatId(a, b) = ChatId(b, a)
<1>1. CASE HashCode[a] < HashCode[b]
  <2>1. HashCode[a] <= HashCode[b] /\ ~(HashCode[b] <= HashCode[a])
    BY <1>1
  <2>. QED  BY <2>1 DEF ChatId
<1>2. CASE HashCode[b] < HashCode[a]
  <2>1. HashCode[b] <= HashCode[a] /\ ~(HashCode[a] <= HashCode[b])
    BY <1>2
  <2>. QED  BY <2>1 DEF ChatId
<1>3. CASE HashCode[a] = HashCode[b]
  <2>1. a = b
    BY <1>3
  <2>. QED  BY <2>1
<1>. QED  BY <1>1, <1>2, <1>3

(***************************************************************************)
(* And only as long: two users with one hash code compute different ids,   *)
(* each with the own uid first, and write to chats that the other never    *)
(* opens.  This is the collision that '<=' leaves (widget_matches.dart:115).*)
(***************************************************************************)
THEOREM ChatIdCollision ==
    ASSUME NEW a \in Users, NEW b \in Users, a # b,
           HashCode[a] \in Int, HashCode[a] = HashCode[b]
    PROVE  ChatId(a, b) # ChatId(b, a)
<1>1. ChatId(a, b) = <<a, b>>
  BY DEF ChatId
<1>2. ChatId(b, a) = <<b, a>>
  BY DEF ChatId
<1>. QED  BY <1>1, <1>2

(***************************************************************************)
(* No chat is shared by two pairs: whatever the hash codes, an id is that  *)
(* of one pair of users, so that a third one never reads their messages.   *)
(***************************************************************************)
THEOREM ChatIdOfOnePair ==
    ASSUME NEW a \in Users, NEW b \in Users, NEW c \in Users, NEW d \in Users,
           ChatId(a, b) = ChatId(c, d)
    PROVE  {a, b} = {c, d}
<1>1. ChatId(a, b) \in {<<a, b>>, <<b, a>>}
  BY DEF ChatId
<1>2. ChatId(c, d) \in {<<c, d>>, <<d, c>>}
  BY DEF ChatId
<1>3. <<a, b>> = <<c, d>> \/ <<a, b>> = <<d, c>> \/ <<b, a>> = <<c, d>> \/ <<b, a>> = <<d, c>>
  BY <1>1, <1>2
<1>. QED  BY <1>3

=============================================================================
