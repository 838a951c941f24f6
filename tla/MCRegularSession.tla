-------------------------- MODULE MCRegularSession --------------------------
(* Two sessions of one artifact for 1(21)*, with a trap state that folding  *)
(* makes dead; the row budget holds one of the masks and the serving gate   *)
(* admits one walk at a time.                                               *)
EXTENDS RegularSession

MCByte == {1, 2}
MCClass == {1, 2}
MCRawState == {1, 2, 3}
MCDead == 0
MCEdge ==
    [p \in MCRawState \X MCClass |->
        CASE p = <<1, 1>> -> 2  [] p = <<1, 2>> -> 3
          [] p = <<2, 1>> -> 0  [] p = <<2, 2>> -> 1
          [] OTHER -> 3]
MCRaw == [start |-> 1, accepting |-> {2}, classOf |-> [b \in MCByte |-> b], edge |-> MCEdge]

(* From the start: a whole word, a step into the trap, and once around.     *)
MCTokenBytes == [tok \in 1 .. 3 |-> CASE tok = 1 -> <<1>> [] tok = 2 -> <<2>> [] tok = 3 -> <<1, 2>>]
MCServingPolicy == [conc |-> 1, budget |-> 2]
=============================================================================
