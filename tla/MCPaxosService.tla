--------------------------- MODULE MCPaxosService ---------------------------
EXTENDS PaxosService

TwoServices == <<"mdsmap", "osdmap">>

Op(kind, s, o) == [kind |-> kind, svc |-> s, other |-> o]

ThreeOps == {Op("plain", "osdmap", "mdsmap"), Op("cross", "mdsmap", "osdmap"),
             Op("batch", "osdmap", "mdsmap")}
=============================================================================
