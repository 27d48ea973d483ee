----------------------------- MODULE ByteStream -----------------------------
(***************************************************************************)
(* What a reader of the console's socket is promised: the bytes of the     *)
(* server come out in the order they went in, none twice and none missing, *)
(* however the network cuts them into messages.  The n-th byte the server  *)
(* sends is written n.  Bytes may be lost only when more of them wait than *)
(* the receive queue is allowed to hold, and the stream then has a gap.    *)
(***************************************************************************)
EXTENDS Naturals, Sequences

CONSTANTS Limit,    \* unread bytes the receive queue may hold at most
          MaxMsg    \* bytes in one message

VARIABLES arrived,  \* bytes received so far, lost ones included
          unread,   \* bytes received and not read yet, oldest first
          gap       \* bytes were lost

svars == <<arrived, unread, gap>>

StreamInit == arrived = 0 /\ unread = <<>> /\ gap = FALSE

Deliver(n) == /\ arrived' = arrived + n
              /\ unread' = unread \o [k \in 1..n |-> arrived + k]
              /\ UNCHANGED gap

Lose(n) == /\ gap \/ Len(unread) + n > Limit
           /\ arrived' = arrived + n
           /\ gap' = TRUE
           /\ UNCHANGED unread

Take(n) == /\ n <= Len(unread)
           /\ unread' = SubSeq(unread, n + 1, Len(unread))
           /\ UNCHANGED <<arrived, gap>>

StreamNext == \/ \E n \in 0..MaxMsg : Deliver(n) \/ Lose(n)
              \/ \E n \in 1..Limit : Take(n)

StreamSpec == StreamInit /\ [][StreamNext]_svars
=============================================================================
