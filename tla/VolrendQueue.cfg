SPECIFICATION FairSpec
CONSTANTS
    num_nodes = 2
    ROTATE_STEPS = 3
    image_lenX = 3
    image_lenY = 3
    block_len = 2
INVARIANTS FrameComplete SectionsLeft BlocksTaken OneRayUnlessReset
PROPERTY Termination
