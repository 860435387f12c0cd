--------------------------- MODULE MCReportServer ---------------------------
EXTENDS ReportServer, ByteRange, TLC

CONSTANTS c1, c2, w1, w2, s1, s2, s3, p1, p2

MCCommands == {c1, c2}
MCWorkspaces == {w1, w2}
MCServers == {s1, s2, s3}
MCPids == {p1, p2}
MCMaxPort == 2
MCWindow == 1
MCMaxCommands == 4
MCMaxSafe == 5
MCLargest == 7

Symmetry ==
  Permutations(MCCommands) \cup Permutations(MCWorkspaces) \cup Permutations(MCServers)
    \cup Permutations(MCPids)

(* Every range header of a small file, with numbers up to and beyond the   *)
(* largest, is answered with exactly the bytes it names that exist.        *)
ASSUME RangesAreExact ==
  \A size \in 0..MaxSafe, range \in RangeHeaders(Largest + 2) : RangeIsExact(range, size)
=============================================================================
