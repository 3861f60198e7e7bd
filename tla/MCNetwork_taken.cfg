CONSTANTS
  ByteBits = 2
  Bytes4 = 2
  Bytes6 = 3
  BytesPath = 1
  NetworkLimit = 6
  IdA = IdA
  IdB = IdB
  Netspecs <- Networks4
  Identifiers <- NoIds
  HashOf <- Hashes
  Requested <- NetworkRequest
SPECIFICATION Spec
PROPERTIES
  ReservesNew
