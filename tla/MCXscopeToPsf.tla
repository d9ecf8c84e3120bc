-------------------------- MODULE MCXscopeToPsf --------------------------
(* A counter of two bits, a table of two entries, one core that the header    *)
(* announces and one it does not, whole events and events cut short, and command    *)
(* lines for each way arguments are taken or refused.                               *)
EXTENDS XscopeToPsf
MCFalseTables == {[slots |-> 1, entry |-> 44], [slots |-> 3, entry |-> 12]}
MCLengths == [header |-> 32, timestamp |-> 28, table |-> 12, entry |-> 44]
MCCommandLines ==
  { <<"-i", "in">> \o rest : rest \in {<<"-o", "out">>, <<"-s", "-o", "out">>, <<"-v", "-d", "100", "-o", "out">>,
      <<"-d", "soon", "-o", "out">>, <<"-I", "host:port", "-o", "out">>, <<"-I", "host", "-o", "out">>, << >>} }
  \cup { <<"-I", "host:port", "-p", "-o", "out">>, <<"-I", "host", "-o", "out">>, <<"-i", "-o", "out">>,
         <<"-o">>, <<"-x">>, <<"-h", "-x">>, <<"--version">> }
=============================================================================
