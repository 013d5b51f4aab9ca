SPECIFICATION MCSpec
CONSTANTS
    Device <- MCDevice
    Source <- MCSource
    TypeOf <- MCTypeOf
    KernelsIn <- MCKernelsIn
    CompilesOn <- MCCompilesOn
    Absolute = {}
    SearchPaths <- MCSearchPaths
    Plugin <- MCPlugin
    ArrayProperty <- MCArrayProperty
    Sched = {"s1", "s2"}
    ResourcesId = {"r1", "r2"}
    KernelFile <- MCKernelFile
    Platforms <- MCPlatforms
    Env <- AllDevices
    Manager = {"m1", "m2"}
    Library <- MCLibrary
    Exports <- MCExports
    EnvPath <- MCEnvPath
    PluginDir = "lib"
    File <- MCFile
INVARIANTS
    NodesOnEdges
    LaunchBuilds
    ExpansionFits
    TurnsMatch
    SpreadOverGpus
    GroupsOfThisRun
    GpusOfThisRun
    RunsEquipped
    KernelFits
    BuiltForAll
    PluginFits
PROPERTY RoundTrip
CHECK_DEADLOCK FALSE
