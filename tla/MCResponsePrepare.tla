-------------------------- MODULE MCResponsePrepare --------------------------
(* Range sets built from up to two tokens joined by commas, drawn from      *)
(* tokens that reach every branch of parseRangesRequest.                   *)
EXTENDS ResponsePrepare
LOCAL INSTANCE SequencesExt

TokenStrs ==
  { <<"0", "-", "0">>, <<"0", "-", "2">>, <<"1", "-", "2">>, <<"2", "-", "1">>,
    <<"0", "-", "3">>, <<"1", "-">>, <<"-", "1">>, <<"-", "3">>, <<"-">>, <<>>,
    <<"x", "-", "1">>, <<" ", "1", "-", "1">> }

Join(ts) == IF ts = <<>> THEN <<>>
            ELSE FoldLeft(LAMBDA acc, t : acc \o <<",">> \o t, Head(ts), Tail(ts))

MCRangeHeaders ==
  { [unit |-> "bytes=", set |-> Join(ts)] : ts \in SeqOf(TokenStrs, 2) }
  \cup { [unit |-> "bytes", set |-> <<>>], [unit |-> "items=", set |-> <<>>] }
====
