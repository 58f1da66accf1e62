----------------------------- MODULE FifoChannel -----------------------------
(***************************************************************************)
(* What a channel promises to the threads that share it, without mutex,    *)
(* condition variable or reference counts: every call takes effect at one  *)
(* instant between its start and its return. A send appends its item to a  *)
(* FIFO buffer that has room, a receive takes the oldest item; both fail   *)
(* only where the promise allows it.                                       *)
(***************************************************************************)
EXTENDS Naturals, Sequences

CONSTANTS Threads, Items, NoArg, Room

VARIABLES limited,   \* does the buffer hold at most Room items?
          buf, open, gone,
          req, arg   \* what each thread has asked for and not yet got

vars == <<limited, buf, open, gone, req, arg>>

Init ==
  /\ limited \in BOOLEAN /\ buf = <<>> /\ open = TRUE /\ gone = FALSE
  /\ req = [t \in Threads |-> "none"] /\ arg = [t \in Threads |-> NoArg]

Ask(t, r, i) ==
  /\ req[t] = "none" /\ ~gone
  /\ req' = [req EXCEPT ![t] = r] /\ arg' = [arg EXCEPT ![t] = i]
  /\ UNCHANGED <<limited, buf, open, gone>>

Answer(t) == req' = [req EXCEPT ![t] = "none"] /\ arg' = [arg EXCEPT ![t] = NoArg]

Put(t) ==
  /\ req[t] = "send" /\ open /\ (limited => Len(buf) < Room)
  /\ buf' = Append(buf, arg[t])
  /\ Answer(t)
  /\ UNCHANGED <<limited, open, gone>>

(* A plain value is refused by a closed channel only; a managed one also   *)
(* when it is no live object.                                              *)
Refuse(t) ==
  /\ req[t] = "send" /\ (open => arg[t].managed)
  /\ Answer(t)
  /\ UNCHANGED <<limited, buf, open, gone>>

Get(t) ==
  /\ req[t] = "recv" /\ buf # <<>>
  /\ buf' = Tail(buf)
  /\ Answer(t)
  /\ UNCHANGED <<limited, open, gone>>

(* A closed channel is emptied before a receive fails. *)
Exhausted(t) ==
  /\ req[t] = "recv" /\ buf = <<>> /\ ~open
  /\ Answer(t)
  /\ UNCHANGED <<limited, buf, open, gone>>

Shut == open /\ open' = FALSE /\ UNCHANGED <<limited, buf, gone, req, arg>>

(* The buffer goes with the last reference to the channel. *)
Vanish ==
  /\ ~gone /\ \A t \in Threads : req[t] = "none"
  /\ gone' = TRUE /\ buf' = <<>>
  /\ UNCHANGED <<limited, open, req, arg>>

Next ==
  \/ \E t \in Threads :
       \/ (\E i \in Items : Ask(t, "send", i)) \/ Ask(t, "recv", NoArg)
       \/ Put(t) \/ Refuse(t) \/ Get(t) \/ Exhausted(t)
  \/ Shut \/ Vanish

Spec == Init /\ [][Next]_vars
=============================================================================
