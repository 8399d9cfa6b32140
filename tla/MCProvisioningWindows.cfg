SPECIFICATION Spec
CONSTANTS
  MaxKeys = 3
  Protos <- MCProtos
  Windows = TRUE
INVARIANTS
  ProfileFits
