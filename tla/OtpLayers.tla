----------------------------- MODULE OtpLayers -----------------------------
(***************************************************************************)
(* What OTP promises its users: windows and icons lie in layers, a higher   *)
(* layer over a lower one, and whatever happens to one client moves nothing *)
(* of the other clients.                                                    *)
(***************************************************************************)
EXTENDS Integers

CONSTANTS
  Thing,     \* the windows and icons that are stacked
  Client,    \* the clients
  PartOf,    \* of each client what moves with it: window, icon, dialogs
  MaxLayer,  \* the layers are 0 .. MaxLayer
  None       \* the layer of what is not shown, no number

VARIABLES
  layer,  \* the layer of each thing
  below   \* what lies under it

layerVars == <<layer, below>>

Shown == {x \in Thing : layer[x] # None}

Layered ==
  /\ layer \in [Thing -> (0 .. MaxLayer) \cup {None}]
  /\ below \in [Thing -> SUBSET Thing]
  /\ \A x \in Thing : below[x] \subseteq Shown \ {x}
  /\ \A x \in Thing \ Shown : below[x] = {}
  /\ \A x, y \in Shown : x = y \/ x \in below[y] \/ y \in below[x]
  /\ \A x \in Shown : \A y \in below[x] :
       below[y] \subseteq below[x] /\ layer[y] <= layer[x]

LayersInit == /\ layer = [x \in Thing |-> None]
              /\ below = [x \in Thing |-> {}]

\* Something happens to client c: it comes, goes, moves or changes layers.
Arrange(c) ==
  /\ Layered'
  /\ \A x \in Thing \ PartOf[c] : layer'[x] = layer[x]
  /\ \A x, y \in Thing \ PartOf[c] : x \in below'[y] <=> x \in below[y]

\* The window manager restarts and takes everything over again.
StartOver == /\ layer' = [x \in Thing |-> None]
             /\ below' = [x \in Thing |-> {}]

LayersNext == StartOver \/ \E c \in Client : Arrange(c)

LayersSpec == LayersInit /\ [][LayersNext]_layerVars

=============================================================================
