CONSTANTS
    r1 = r1
    w1 = w1
    w2 = w2
    Readers = {r1}
    Writers = {w1, w2}
    INPUT_BUF_SIZE = 2
    UART_TX_BUF_SIZE = 2
    CtrMod = 4
    Loads <- SmallLoads
    ReadMax = 2
SPECIFICATION FairSpec
CHECK_DEADLOCK FALSE
INVARIANT OutputInOrder
PROPERTIES ImplementsTerminal WriteEnds InputIsRead
