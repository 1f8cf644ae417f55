-------------------------------- MODULE MCRpc --------------------------------
(* One message of every kind, and a second login; two services for clients  *)
(* and two for answers.                                                     *)
EXTENDS Rpc

CONSTANTS t1, t2, a, b, refused, unparsable, toobig, incomplete, unknown,
          malformed, answer, failure, garbled, stranger, s1, s2, c1, c2
Thread1 == {t1}
Thread2 == {t1, t2}
MCMsg == {a, b, refused, unparsable, toobig, incomplete, unknown, malformed,
          answer, failure, garbled, stranger}
TwoLogins == {a, b}
KindOf(m) ==
  CASE m \in {a, b}     -> "login"       [] m = refused    -> "refused"
    [] m = unparsable   -> "unparsable"  [] m = toobig     -> "toobig"
    [] m = incomplete   -> "incomplete"  [] m = unknown    -> "unknown"
    [] m = malformed  -> "malformed"   [] m = answer     -> "answer"
    [] m = failure    -> "failure"     [] m = garbled    -> "garbled"
    [] m = stranger   -> "stranger"
MCService == {s1, s2, c1, c2}
MCSkeleton == {s1, s2}
Orders == {<< >>, <<s1>>, <<c1, s1, c2>>, <<s2, s1, c1>>, <<s1, c2, s2, c1>>}
OneService == {<<s1>>}
MCKind == [m \in Msg |-> KindOf(m)]
=============================================================================
