SPECIFICATION FairSpec
CONSTANTS
    map_len <- Size
    map <- Clouds
    view <- FirstView
    NORM_LSHIFT = 3
    pyr_highest_level = 5
    pyr_lowest_level = 2
    num_nodes = 2
    image_lenX = 2
    image_lenY = 5
    image_sectionX = 1
    block_len = 4
    highest_sampling_boxlen = 4
    volume_color_difference = 16
    window <- Window
    Views <- AllViews
    Retaken <- LastBlock
    Rereads = TRUE
INVARIANT SameImage
PROPERTY Termination
