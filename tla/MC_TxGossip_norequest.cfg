CONSTANTS
    W1 = W1   W2 = W2   A1 = A1   A2 = A2   P1 = P1   P2 = P2
    Workers = {W1, W2}
    OwnTxs = {A1, A2}
    PeerTxs = {P1, P2}
    BadSig = {P2}
    MaxPeerMsgs = 2
SPECIFICATION Spec
PROPERTY
    AnnouncedTxsArrive
\* Once the peer's messages are handled the node waits on recv: not a deadlock
\* of the code.
CHECK_DEADLOCK FALSE
