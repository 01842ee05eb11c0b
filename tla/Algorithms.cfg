\* Two fetches on one backend connection, bodies of up to four bytes; pages of two
\* constructs and a tail, in up to three storages; two requests with two edits and a
\* restart; five items on pages of four; three hosts; two methods and two
\* subroutines; three entries of two two-bit bytes.
SPECIFICATION PartSpec
CONSTANTS
  NReq = 2
  Bodies = {0, 1, 2, 4}
  Spaces = {1, 2, 4}
  siov = 3
  MaxParts = 2
  MaxSize = 3
  max_esi_includes = 1
  Cells = 8
  Slots = 6
  Names = {"a"}
  Requests <- MCRequests
  Answers <- MCAnswers
  Printed <- MCPrinted
  MaxEdits = 2
  MaxRestarts = 1
  Items = {e1, e2, e3, e4, e5}
  Times = {1, 2}
  PageSize = 4
  NHosts = 3
  Weight <- MCWeight
  Fractions = 4
  Retries = {0, 1}
  Callers = {w1, w2}
  Methods = {"recv", "fetch"}
  Subs = {"a", "b"}
  Returns = {"r"}
  VclVars = {"v"}
  Legal <- MCLegal
  Available <- MCAvailable
  Graphs <- MCGraphs
  Ends <- MCEnds
  Uses <- MCUses
  ByteBits = 2
  AddrBytes = 2
  Family = 2
  Written <- MCWritten
  MaxEntries = 3
INVARIANTS BodyStored DeliveredWhole  HeadersIntact ResponseKept HeapExact NoneOverlooked XrefExact AclBytesExact
\* The bounds end a behaviour, and so do a page and a compilation.
CHECK_DEADLOCK FALSE
