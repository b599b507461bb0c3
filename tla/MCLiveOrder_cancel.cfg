\* A cancel and a confirm of one order, on two threads.
SPECIFICATION Spec
CONSTANTS
    o1 = o1
    h1 = h1
    h2 = h2
    Orders = {o1}
    Handlers = {h1, h2}
    MaxPlaced = 2
SYMMETRY Symmetry
INVARIANT CancelledNotWorking
