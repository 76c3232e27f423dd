------------------------------- MODULE Tunnels -------------------------------
(***************************************************************************)
(* What the proxy promises of the bytes of a tunnel (socks4.cc:96-117): as  *)
(* long as both ends are there, what one end sends is given to the other,   *)
(* in the order it was sent, without loss or repetition, and to nobody      *)
(* else's tunnel.  When a tunnel ends, what is in transit in either         *)
(* direction goes with it.                                                  *)
(***************************************************************************)
EXTENDS Sequences, Naturals

CONSTANTS End, Source, Message  \* a message has the field `src', its source

VARIABLE flow  \* <<from, to>>, the ends of an open tunnel -> what goes this way:
               \*   sender   the source that `from' is
               \*   unsent   what `from' is still going to send
               \*   transit  what has been sent and `to' has not been given
               \*   given    all that `to' has been given, in this order

Flow == [ sender : Source, unsent : Seq(Message), transit : Seq(Message), given : Seq(Message) ]

Both(a, b) == { <<a, b>>, <<b, a>> }

Origins(messages) == { messages[i].src : i \in DOMAIN messages }

(* What one end sends is found on no way but its own. *)
Unmixed ==
  \A way, other \in DOMAIN flow : way # other =>
    /\ flow[way].sender # flow[other].sender
    /\ flow[way].sender \notin Origins(flow[other].transit) \cup Origins(flow[other].given)

Init == flow = [ way \in {} |-> <<>> ]

Kept(ways) == \A way \in ways : flow'[way] = flow[way]

(* A tunnel opens.  Something may be there already: what an end has sent so *)
(* far, and what the other has been given before.                           *)
Open(a, b) ==
  /\ Both(a, b) \cap DOMAIN flow = {}
  /\ DOMAIN flow' = DOMAIN flow \cup Both(a, b)
  /\ \A way \in Both(a, b) :
       flow'[way] \in Flow /\ Origins(flow'[way].unsent) \subseteq {flow'[way].sender}
  /\ Kept(DOMAIN flow)
  /\ Unmixed'

(* Tunnels end, each in both directions. *)
Shut ==
  /\ DOMAIN flow' \subseteq DOMAIN flow
  /\ \A way \in DOMAIN flow \ DOMAIN flow' : <<way[2], way[1]>> \notin DOMAIN flow'
  /\ Kept(DOMAIN flow')

(* Nothing else goes on than what happens on one way. *)
OnWay(way, what) == flow' = [flow EXCEPT ![way] = what]

Send(way) ==
  /\ flow[way].unsent # <<>>
  /\ OnWay(way, [flow[way] EXCEPT !.unsent = Tail(@),
                                  !.transit = Append(@, Head(flow[way].unsent))])

(* `from' ends its stream, or its connection broke: it sends no more. *)
Cease(way) == OnWay(way, [flow[way] EXCEPT !.unsent = <<>>])

(* The other end is given the front of what is in transit. *)
Deliver(way, n) ==
  LET transit == flow[way].transit IN
  OnWay(way, [flow[way] EXCEPT !.transit = SubSeq(transit, n + 1, Len(transit)),
                               !.given = @ \o SubSeq(transit, 1, n)])

(* Something of a source that is in no tunnel comes in behind the first n   *)
(* messages: `to' is named by a link that was meant for somebody else.      *)
Stray(way, n) ==
  /\ way \in DOMAIN flow'
  /\ LET old == flow[way].transit
         new == flow'[way].transit
         strays == SubSeq(new, n + 1, n + Len(new) - Len(old))
     IN /\ \E s \in Origins(strays) : /\ Origins(strays) = {s} /\ s \in Source
                                      /\ \A other \in DOMAIN flow : flow[other].sender # s
        /\ OnWay(way, [flow[way] EXCEPT !.transit =
                         SubSeq(old, 1, n) \o strays \o SubSeq(old, n + 1, Len(old))])

Next ==
  \/ Shut
  \/ \E way \in DOMAIN flow' \ DOMAIN flow :
       way \in End \X End /\ Open(way[1], way[2])
  \/ \E way \in DOMAIN flow :
       \/ Send(way) \/ Cease(way)
       \/ \E n \in 1..Len(flow[way].transit) : Deliver(way, n)
       \/ \E n \in 0..Len(flow[way].transit) : Stray(way, n)

Spec == Init /\ [][Next]_flow
=============================================================================
