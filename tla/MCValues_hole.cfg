CONSTANTS
  Parts = {"integers"}
  ByteBits = 2
  Bytes4 = 2
  Bytes6 = 3
  BytesPath = 2
  Objects = {1, 2}
  ClientAddresses <- SomeAddresses
  ClientPorts <- SomePorts
  NetworkLimit = 4
  Netspecs <- AllNetworks
  Identifiers = {}
  HashOf <- NoHashes
  Requested = {}
  Given <- SomeGiven
  Runs <- SomeRuns
  MaxTokens = 4
  Packets <- SomePackets
  UnitBits = 2
  IntUnits = 2
  VarintBits = 5
  BufferSize = 4
  SignedUnits = FALSE
  Varints <- SomeVarints
  BaseBits = 5
  CrcBits = 4
  OctetBits = 2
  Polynomial <- SomePolynomial
  MaxBytes = 5
  Alphabet <- SomeCharacters
  MaxLength = 3
  MaxNeedle = 2
  UrlChars = {":", "/", "?", "#", "&", "=", "A", "a", "yes", "1", ",", "-"}
  UrlKept = {"/", "A", "a", "yes", "1", "-"}
  EncodedAs <- PrintedAs
  Capitals = {"A"}
  LowerOf <- LowerCase
  Yes = "yes"
  One = "1"
  UrlStarts <- SomeStarts
  UrlLetters <- SomeLetters
  MaxUrl = 8
  HostNames = {"host"}
  Numbers = {1, 2}
  PortValues = 4
  NamedPorts <- PortsInNames
  NoPort = no_port
  BadPort = bad_port
  HugePort = huge_port
  Threads = {1, 2}
  Codes = {"k1", "k2", "u1", "u2"}
  Known = {"k1", "k2"}
  Torn = torn
  NoText = no_text
SPECIFICATION ValuesSpec
INVARIANT
  ReturnsUnitsWritten
