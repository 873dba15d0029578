------------------------- MODULE MCCommandChannel -------------------------
(* A user task and a receive loop compete for a channel of two or three    *)
(* places; an assignment has up to two chunks of up to two logs, so a full *)
(* channel, parked senders and a parked executor all occur.                *)
EXTENDS CommandChannel

CONSTANTS u1, r1, exec

OneUser == {u1}
OneReceiver == {r1}
===========================================================================
