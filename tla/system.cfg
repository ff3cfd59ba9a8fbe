SPECIFICATION SystemSpec
CONSTANTS
  Users <- OneUser
  Topics = {a}
  Handlers = {h1, h2}
  Msgs = {m1, m2}
  PubQos <- Qos12
  InQos <- Qos12
  SubCodes <- SubAnswers
  MaxPacketId = 8
  AckMax = 1
  CharSigned = FALSE
  AllocMayFail = FALSE
  OverlappingUnsub = FALSE
  NULL = NULL
  BrokerMsgs = 2
  MaxExchanges = 2
  MaxRequests = 3
  MaxFaults = 2
  CleanSession = FALSE
  u1 = u1
  a = a
  h1 = h1
  h2 = h2
  m1 = m1
  m2 = m2
INVARIANT HandlersHeard
PROPERTY OutboundDelivery InboundDelivery SessionResumes
