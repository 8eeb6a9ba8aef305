\* A failed append leaves bytes behind; the next one is acknowledged all the same.
SPECIFICATION Spec
CONSTANTS
  Requests   <- MCRequests
  Instances  <- MCInstances
  Nonces     <- MCNonces
  Digests    <- MCDigests
  InstanceOf <- MCInstanceOf
  NoncesOf   <- MCNoncesOf
  DigestOf   <- MCDigestOf
  Current    <- MCCurrent
  Probes     <- MCProbes
  MaxFaults  = 1
  MaxCrashes = 0
  NoRequest  = NoRequest
  NoInstance = NoInstance
INVARIANT ClaimIsChained
