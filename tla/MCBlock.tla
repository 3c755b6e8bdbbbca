------------------------------ MODULE MCBlock ------------------------------
(* Block-wise transfer: the range array, an upload and a download, each by  *)
(* itself.                                                                  *)
EXTENDS RecBlocks, CoapBlockPut, CoapBlockGet

VARIABLE part  \* the one that runs

TwoUploads == <<3, 2>>
TwoOfUnit == <<0, 0>>
TwoAlike == <<"f", "f">>
TwoToOne == <<"r", "r">>
ThreeUploads == <<3, 2, 2>>
OneUnit == <<0, 0, 0>>
ThirdAlike == <<"f", "g", "f">>
OneTarget == <<"r", "r", "r">>
OneGet == <<0>>
TwoVersions == <<3, 2>>
CopyPlain == [observed \in BOOLEAN |-> IF observed THEN 0 ELSE 1]

\* The parts that do not run stay in one of their initial states.
BlockInit == /\ part \in {"ranges", "put", "get"}
             /\ RecInit /\ PutInit /\ GetInit
             /\ part # "put" => single
             /\ part # "get" => observing

BlockNext ==
  \/ part = "ranges" /\ RecNext /\ UNCHANGED <<part, putvars, getvars>>
  \/ part = "put" /\ PutNext /\ UNCHANGED <<part, recvars, getvars>>
  \/ part = "get" /\ GetNext /\ UNCHANGED <<part, recvars, putvars>>

\* A part that does not run has no datagrams, so its fairness asks for nothing.
BlockSpec == /\ BlockInit /\ [][BlockNext]_<<part, recvars, putvars, getvars>>
             /\ PutFair /\ GetFair
=============================================================================
