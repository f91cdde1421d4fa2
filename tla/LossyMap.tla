------------------------------ MODULE LossyMap ------------------------------
(***************************************************************************)
(* What a cache promises whoever asks it: a key yields what the last put   *)
(* of it wrote, or nothing.  It may lose any key at any time; what is lost *)
(* stays lost until the key is put again.  A put that fails may leave      *)
(* anything of the kind Cut.                                               *)
(***************************************************************************)
CONSTANTS Key, Data, Cut, Nothing

VARIABLE val

Init == val = [k \in Key |-> Nothing]

\* The keys of L are lost in a step that makes v of val.
Without(v, L) == [k \in Key |-> IF k \in L THEN Nothing ELSE v[k]]

Put(k, d) ==
  \E L \in SUBSET Key : val' = Without([val EXCEPT ![k] = d], L)

PutFails(k) == val' = [val EXCEPT ![k] = Cut]

Lose == \E L \in SUBSET Key : val' = Without(val, L)

Next ==
  \/ \E k \in Key : PutFails(k) \/ \E d \in Data : Put(k, d)
  \/ Lose

Spec == Init /\ [][Next]_val

=============================================================================
