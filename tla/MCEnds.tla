------------------------------- MODULE MCEnds -------------------------------
(***************************************************************************)
(* Instances for TLC of the two parts in which a call must come to an end  *)
(* whatever Chrome and its caller do: the transport, and the viewport that *)
(* two connections with a handle each contend for, as two handles of one   *)
(* do.  The parts share nothing, so a behaviour is of one or the other.    *)
(***************************************************************************)
EXTENDS Transport, ViewportPart

CONSTANTS f1, f2, v1, v2
ConnOf == [f \in {f1, f2} |-> IF f = f2 THEN v2 ELSE v1]

VARIABLE part

EndsInit == part \in {"transport", "viewport"} /\ Init /\ View!Init

EndsNext ==
  /\ UNCHANGED part
  /\ \/ part = "transport" /\ Next /\ UNCHANGED viewVars
     \/ part = "viewport" /\ View!Next /\ UNCHANGED vars

EndsSpec ==
  EndsInit /\ [][EndsNext]_<<part, vars, viewVars>> /\ Fairness /\ View!Fairness

\* Every bounded command ends, and once the transport is lost or closed so does every
\* native completion; the writer they contend for is given back.
EveryCommandEnds == EveryCommandSettles /\ WriterReleased
=============================================================================
