-------------------------------- MODULE CutPipes --------------------------------
(***************************************************************************)
(* What the two peers of a WebSocket bridge are promised: two FIFO pipes   *)
(* that are cut at the same instant.  What is said arrives in order, once, *)
(* and unchanged; the cut fixes how much of either pipe still arrives at   *)
(* most, and nothing beyond that ever does.                                *)
(***************************************************************************)
EXTENDS Naturals, Sequences

CONSTANTS Dirs, Messages

VARIABLES
  said,   \* what the source of each direction has sent
  heard,  \* what its destination has received
  cut,    \* whether the pipes are cut
  limit   \* once they are, how many messages of each direction arrive at most

pvars == <<said, heard, cut, limit>>

Init ==
  /\ said = [d \in Dirs |-> <<>>]
  /\ heard = [d \in Dirs |-> <<>>]
  /\ cut = FALSE
  /\ limit = [d \in Dirs |-> 0]

Say(d, m) ==
  /\ said' = [said EXCEPT ![d] = Append(@, m)]
  /\ UNCHANGED <<heard, cut, limit>>

Hear(d) ==
  /\ Len(heard[d]) < IF cut THEN limit[d] ELSE Len(said[d])
  /\ heard' = [heard EXCEPT ![d] = Append(@, said[d][Len(@) + 1])]
  /\ UNCHANGED <<said, cut, limit>>

Cut ==
  /\ ~cut
  /\ cut' = TRUE
  /\ DOMAIN limit' = Dirs
  /\ \A d \in Dirs : limit'[d] \in Len(heard[d])..Len(said[d])
  /\ UNCHANGED <<said, heard>>

\* The end of a pipe that is cut gets lost.
Lose(d) ==
  /\ cut
  /\ \E n \in Len(heard[d])..limit[d] : limit' = [limit EXCEPT ![d] = n]
  /\ UNCHANGED <<said, heard, cut>>

Next ==
  \/ \E d \in Dirs : Hear(d) \/ Lose(d) \/ \E m \in Messages : Say(d, m)
  \/ Cut

Spec == Init /\ [][Next]_pvars
================================================================================
