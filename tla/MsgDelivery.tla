---------------------------- MODULE MsgDelivery ----------------------------
(***************************************************************************)
(* What the receive queue and its thread pool promise the code that calls  *)
(* inMsgRecvQueueAndSignal(): a message handed over waits in line, leaves  *)
(* the line in the order of arrival, is served by one thread and released  *)
(* once; what still waits when the pool is destroyed is released as a      *)
(* whole, when nothing is in service any more.  Messages are named by      *)
(* their arrival number.                                                   *)
(***************************************************************************)
EXTENDS Naturals, Sequences

CONSTANT MaxMsgs        (* bound: how many messages arrive *)

VARIABLES arrived,      (* how many messages arrived *)
          line,         (* messages that wait, oldest first *)
          serving,      (* messages some thread is working on *)
          released,     (* messages whose memory was given back *)
          closed        (* whether the line has been thrown away *)

vars == <<arrived, line, serving, released, closed>>

Init == /\ arrived = 0
        /\ line = <<>>
        /\ serving = {}
        /\ released = {}
        /\ closed = FALSE

Arrive == /\ ~closed
          /\ arrived < MaxMsgs
          /\ arrived' = arrived + 1
          /\ line' = Append(line, arrived')
          /\ UNCHANGED <<serving, released, closed>>

Serve == /\ ~closed
         /\ line # <<>>
         /\ serving' = serving \cup {Head(line)}
         /\ line' = Tail(line)
         /\ UNCHANGED <<arrived, released, closed>>

Finish == \E m \in serving :
            /\ serving' = serving \ {m}
            /\ released' = released \cup {m}
            /\ UNCHANGED <<arrived, line, closed>>

Discard == /\ ~closed
           /\ serving = {}
           /\ released' = released \cup {line[i] : i \in DOMAIN line}
           /\ line' = <<>>
           /\ closed' = TRUE
           /\ UNCHANGED <<arrived, serving>>

Next == Arrive \/ Serve \/ Finish \/ Discard

Spec == Init /\ [][Next]_vars
=============================================================================
