\* Two crashes and one failing write, at any point of any call or of a boot.
SPECIFICATION FairSpec
CONSTANTS
  Requests   <- MCRequests
  Instances  <- MCInstances
  Nonces     <- MCNonces
  Digests    <- MCDigests
  InstanceOf <- MCInstanceOf
  NoncesOf   <- MCNoncesOf
  DigestOf   <- MCDigestOf
  Current    <- MCCurrent
  Probes     <- MCProbes
  MaxFaults  = 1
  MaxCrashes = 2
  NoRequest  = NoRequest
  NoInstance = NoInstance
INVARIANTS
  TypeOK
  AtMostOncePerInstance
  NonceBinds
  ActuatorInv
  AckedIsDurable
  RestartFaithful
  NoClaimStuck
PROPERTIES
  AlwaysComesBack
