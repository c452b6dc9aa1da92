\* Requests that fork, truncate and append over few small blocks, and a batch.
CONSTANTS
    r1 = r1
    r2 = r2
    b1 = b1
    b2 = b2
    b3 = b3
    x = x
    y = y
    Zero = Zero
    None = None
    Requests <- RequestsMC
    Blocks <- BlocksMC
    BlockSize = 2
    MaxLength = 4
    MaxDelta = 3
    Tokens <- TokensMC
SYMMETRY Symmetry
SPECIFICATION Spec
INVARIANTS BlocksAreAccounted ViewsAreBacked CommitNeverRunsDry
PROPERTIES FencedBlocksStay ImplementsStore
