SPECIFICATION Spec
CONSTANTS
  MaxKeys = 3
  Protos <- MCProtos
  Windows = FALSE
INVARIANTS
  ProvisionTypeOK
  ProfileFits
