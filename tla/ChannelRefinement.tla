-------------------------- MODULE ChannelRefinement --------------------------
(***************************************************************************)
(* The channel of the runtime implements FifoChannel. A call is pending    *)
(* until the critical section in which it pushes, pops or fails; waiting,  *)
(* waking and the hand-over of a managed item's references, which come     *)
(* before or after, are stutters.                                          *)
(***************************************************************************)
EXTENDS Channel

Req == [t \in Threads |-> IF pc[t] \in {"send", "recv"} THEN pc[t] ELSE "none"]
Arg == [t \in Threads |-> IF pc[t] = "send" THEN item[t] ELSE NoItem]

Fifo == INSTANCE FifoChannel
          WITH Items <- Item, NoArg <- NoItem, Room <- Capacity,
               limited <- bounded, buf <- queue, open <- ~closed, gone <- dropped,
               req <- Req, arg <- Arg

(* ori_channel_send, _receive, _close and the destructor are linearisable: *)
(* values come out once each and in the order they went in, a bounded      *)
(* channel never holds more than its capacity, closing loses nothing that  *)
(* was accepted, and no call fails without cause, however the threads      *)
(* race for the mutex and whomever a notification wakes.                   *)
ImplementsFifo == Fifo!Spec
=============================================================================
