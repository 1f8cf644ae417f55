CONSTANTS
  t1 = t1
  t2 = t2
  a = a
  b = b
  refused = refused
  unparsable = unparsable
  toobig = toobig
  incomplete = incomplete
  unknown = unknown
  malformed = malformed
  answer = answer
  failure = failure
  garbled = garbled
  stranger = stranger
  s1 = s1
  s2 = s2
  c1 = c1
  c2 = c2
  MethodName = MethodName
  ServiceName = ServiceName
  OtherName = OtherName
  None = None
  Thread <- Thread2
  Msg <- TwoLogins
  Kind <- MCKind
  Service <- MCService
  Skeleton <- MCSkeleton
  Order <- OneService
SPECIFICATION Spec
INVARIANTS ReplyMatches
