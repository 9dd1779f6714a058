SPECIFICATION FairSpec
CONSTANTS
  e1 = e1
  e2 = e2
  p1 = p1
  sas = sas
  n1 = n1
  d1 = d1
  None = None
  Sockets <- MCSockets
  ExtSockets <- MCExtSockets
  PhoneSockets <- MCPhoneSockets
  PhoneQueries <- MCPhoneQueries
  SasCodes <- MCSasCodes
  Nonces <- MCNonces
  Devices <- MCDevices
  MaxFetches = 1
INVARIANTS
  TypeOK
  RoomsExact
  DisconnectFinal
PROPERTY
  FailureAnswered
