SPECIFICATION FairSpec
CONSTANTS
    Unit = 72
    Model <- MCModel
    GeoFile <- MCGeoFile
    hu_gridsize = 2
    hu_numbuckets = 3
    hu_max_prims_cell = 2
    hu_max_subdiv_level = 2
    View <- MCView
    Screen <- MCScreen
    Lights <- MCLights
    maxlevel = 3
    minweight = 1
    ReadObjects <- ReadGeoFile
    HierarchyOf <- BuildHierarchy_Uniform
    ColorsOf <- MCColors
    ErrorColors <- ErrorExit
    HeapSize = 84
    nprocs = 3
    xres = 5
    yres = 1
    blockx = 2
    blocky = 1
    bundlex = 2
    bundley = 1
    ModelSizes = {1, 12}
    ModelCalls = 2
INVARIANTS HeapConsistent PictureExact HierarchyExact
PROPERTY Termination
