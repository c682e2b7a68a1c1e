-------------------------------- MODULE MCMesh --------------------------------
(* Three nodes in a line, a - b - c, of which a looks for a route to c.    *)
EXTENDS Mesh

CONSTANTS a, b, c

Line == {<<a, b>>, <<b, a>>, <<b, c>>, <<c, b>>}
TwoHops == [n \in Nodes |-> 2]
OneDiscovery == {{<<"discover", a, c>>}}
NoneDenied == [n \in Nodes |-> {}]
=============================================================================
