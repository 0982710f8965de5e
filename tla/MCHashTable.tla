----------------------------- MODULE MCHashTable -----------------------------
(***************************************************************************)
(* Three names share a bucket of the first two arrays, one of capacity     *)
(* InitialCapacity = 4 and one of 9, and are apart in the third, of 19; a  *)
(* fourth name lives next to them.                                         *)
(***************************************************************************)
EXTENDS HashTable, TLC

MCKeys == {"a", "b", "c", "d"}

MCHash == "a" :> 0 @@ "b" :> 36 @@ "c" :> 72 @@ "d" :> 1
=============================================================================
