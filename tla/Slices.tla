-------------------------------- MODULE Slices --------------------------------
(***************************************************************************)
(* What the services do with the slices that EKS lists their names in.      *)
(***************************************************************************)
EXTENDS Naturals, Sequences

\* The members of a set, as often and in the order they are listed.
Kept(list, set) ==
  LET kept[i \in 0 .. Len(list)] ==
        IF i = 0 THEN <<>>
        ELSE IF list[i] \in set THEN Append(kept[i - 1], list[i]) ELSE kept[i - 1]
  IN kept[Len(list)]

=============================================================================
