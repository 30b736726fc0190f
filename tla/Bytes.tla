------------------------------- MODULE Bytes -------------------------------
(***************************************************************************)
(* Python's bytes and struct formats, as far as the packet and OpenFlow    *)
(* libraries use them: a byte string is a sequence of fields, each with    *)
(* its width in bytes and its value.                                       *)
(***************************************************************************)
EXTENDS Integers, Sequences, SequencesExt

Field(w, v) == [w |-> w, v |-> v]
Size(raw) == FoldLeft(LAMBDA n, f : n + f.w, 0, raw)

(* The first n bytes of raw and what follows them.  A slice that ends      *)
(* inside a field leaves a part of it, which no format accepts.            *)
RECURSIVE Take(_, _), Drop(_, _)
Take(raw, n) ==
  IF raw = <<>> \/ n <= 0 THEN <<>>
  ELSE IF Head(raw).w <= n
       THEN <<Head(raw)>> \o Take(Tail(raw), n - Head(raw).w)
       ELSE <<[Head(raw) EXCEPT !.w = n]>>
Drop(raw, n) ==
  IF raw = <<>> \/ n <= 0 THEN raw
  ELSE IF Head(raw).w <= n
       THEN Drop(Tail(raw), n - Head(raw).w)
       ELSE <<[Head(raw) EXCEPT !.w = @ - n]>> \o Tail(raw)

(* struct.unpack: the fields of a layout, given as pairs of width and name *)
Fits(lay, raw) ==
  /\ Len(raw) >= Len(lay)
  /\ \A j \in DOMAIN lay : raw[j].w = lay[j][1]
Width(lay) == FoldLeft(LAMBDA n, f : n + f[1], 0, lay)
=============================================================================
