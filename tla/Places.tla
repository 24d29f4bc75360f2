--------------------------------- MODULE Places ---------------------------------
(* The places of a sequence: what is at some of them, and where pieces that  *)
(* follow each other end.                                                    *)
EXTENDS Integers, FiniteSets, SequencesExt

IsSequence(s) == s \in Seq(ToSet(s))

Least(S)    == CHOOSE x \in S : \A y \in S : x <= y
Greatest(S) == CHOOSE x \in S : \A y \in S : x >= y

(* The elements at these places, in an order of the places. *)
Arranged(seq, places, order) ==
  LET Before(i) == {j \in places : <<j, i>> \in order}
  IN  [k \in 1 .. Cardinality(places) |->
         seq[CHOOSE i \in places : Cardinality(Before(i)) = k - 1]]

Filtered(seq, places) == Arranged(seq, places, {e \in places \X places : e[1] < e[2]})

(* Where pieces of these sizes end that follow each other. *)
Ends(sizes) ==
  LET end[i \in 0 .. Len(sizes)] == IF i = 0 THEN 0 ELSE end[i - 1] + sizes[i]
  IN  end

=============================================================================
