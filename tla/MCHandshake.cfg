\* Each end runs this code or another; another sends up to three frames.
CONSTANT MaxForeign = 3
SPECIFICATION HandshakeFairSpec
INVARIANTS
  HandshakeTypeOK
  AuthenticPeer
  ReadyAgreement
  NoSpuriousFailure
PROPERTY BothRegister
\* Both ends are done.
CHECK_DEADLOCK FALSE
