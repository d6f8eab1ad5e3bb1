SPECIFICATION Spec
CONSTANTS
  None = None
  Blob = Blob
  Foreign = Foreign
  Utterances <- TheUtterances
  Complaint <- TheComplaint
  Required <- TheRequired
  Refuted <- TheRefuted
  Deployments <- TheDeployments
  Caller = Caller
  Processes = {p1, p2}
  Keys = {k1, k2}
  GivenKey = GivenKey
  DerivedKey = DerivedKey
  t1 = t1
  t2 = t2
  t3 = t3
  t4 = t4
  f1 = f1
  f2 = f2
  bytes = bytes
  uri = uri
  site = site
  mallory = mallory
SYMMETRY ProcessSymmetry
INVARIANTS TypeOK OneIdentity ReplyIsAnswer InputArrives StreamLossless StreamComplete CallsReachEndpoint
CHECK_DEADLOCK FALSE
