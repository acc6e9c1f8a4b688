---------------------------- MODULE BoundedChannel ----------------------------
(***************************************************************************)
(* What detail::BoundedMpscQueue gives its callers: a first-in first-out   *)
(* channel of at most Capacity messages.  A sender takes its place in the  *)
(* line and then publishes its message; published messages are received    *)
(* once, in the order of the places.  A receiver that finds nothing at the *)
(* head of the line looks whether the channel is shut and, if so, takes    *)
(* the stream as ended.  It does not look at the head again: a message     *)
(* published between the two looks stays behind.                           *)
(***************************************************************************)
EXTENDS Naturals, Sequences

CONSTANTS Producers, Capacity, MaxPushes

VARIABLES
  channel,   \* the places taken and not yet received
  writing,   \* producers that took a place and did not publish yet
  sent,      \* number of places each producer took
  received,  \* everything received, in order
  shut,      \* somebody closed the channel
  receiver   \* "looking", "empty" (the last look found nothing), or "ended"

chanVars == <<channel, writing, sent, received, shut, receiver>>

Init ==
  /\ channel = <<>>
  /\ writing = {}
  /\ sent = [p \in Producers |-> 0]
  /\ received = <<>>
  /\ shut = FALSE
  /\ receiver = "looking"

\* The message a producer has not published is the last one it took a place for.
HeadReady == channel # <<>> /\ \A p \in writing : Head(channel) # <<p, sent[p]>>

TakePlace(p) ==
  /\ p \notin writing
  /\ Len(channel) < Capacity
  /\ sent[p] < MaxPushes
  /\ channel' = Append(channel, <<p, sent[p] + 1>>)
  /\ sent' = [sent EXCEPT ![p] = @ + 1]
  /\ writing' = writing \cup {p}
  /\ UNCHANGED <<received, shut, receiver>>

Publish(p) ==
  /\ p \in writing
  /\ writing' = writing \ {p}
  /\ UNCHANGED <<channel, sent, received, shut, receiver>>

Receive ==
  /\ receiver = "looking" /\ HeadReady
  /\ received' = Append(received, Head(channel))
  /\ channel' = Tail(channel)
  /\ UNCHANGED <<writing, sent, shut, receiver>>

FindNothing ==
  /\ receiver = "looking" /\ ~HeadReady
  /\ receiver' = "empty"
  /\ UNCHANGED <<channel, writing, sent, received, shut>>

LookAgain ==
  /\ receiver = "empty" /\ ~shut
  /\ receiver' = "looking"
  /\ UNCHANGED <<channel, writing, sent, received, shut>>

End ==
  /\ receiver = "empty" /\ shut
  /\ receiver' = "ended"
  /\ UNCHANGED <<channel, writing, sent, received, shut>>

Shut ==
  /\ shut' = TRUE
  /\ UNCHANGED <<channel, writing, sent, received, receiver>>

Next ==
  \/ \E p \in Producers : TakePlace(p) \/ Publish(p)
  \/ Receive \/ FindNothing \/ LookAgain \/ End \/ Shut

Spec == Init /\ [][Next]_chanVars
=============================================================================
