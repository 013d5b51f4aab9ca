----------------------------- MODULE Resources -----------------------------
(***************************************************************************)
(* UfoResources (ufo/ufo-resources.c): the OpenCL devices a run may use    *)
(* and the kernels built for them.  A resources object is a record:        *)
(*                                                                         *)
(*   devices    the devices, in order; device i is behind GPU node i       *)
(*   paths      the directories that are searched for kernel files         *)
(*   programs   the programs built so far, looked up by their source       *)
(*   kernels    every kernel made, in order; released with the object      *)
(*   cache      <<file, name>> -> index in kernels                         *)
(*                                                                         *)
(* OpenCL is external: a platform is a sequence of devices with a type, a  *)
(* source is a value with the names of its kernels and the devices on      *)
(* which it compiles.  Include paths and compiler options that follow from *)
(* the vendor and the device are left out.                                 *)
(***************************************************************************)
EXTENDS Naturals, SequencesExt

CONSTANTS
    Device, Source,
    TypeOf,       (* TypeOf[d]: "cpu", "gpu" or "acc"                          *)
    KernelsIn,    (* KernelsIn[s]: names of the kernels of s, in order         *)
    CompilesOn,   (* CompilesOn[s]: the devices the compiler accepts s for     *)
    Absolute,     (* names of kernel files that are absolute paths             *)
    SearchPaths   (* ".", the installation and UFO_KERNEL_PATH, in this order  *)

ASSUME ResourcesAssumption ==
    /\ TypeOf \in [Device -> {"cpu", "gpu", "acc"}]
    /\ \A s \in Source : CompilesOn[s] \subseteq Device

NoFile == "no file"
Unreadable == "unreadable"
AnyName == "any"        (* the NULL name: whatever kernel comes first          *)
NoOptions == "none"
NoKernel == [source |-> NoFile]

----------------------------------------------------------------------------
(* Construction *)

HasGpus(platform) == \E i \in DOMAIN platform : TypeOf[platform[i]] = "gpu"

(* The first platform with a GPU, else the first one.  The properties      *)
(* platform-index and device-type are set after the devices have been      *)
(* chosen in the instance initialiser and have no effect.                  *)
PreferredPlatform(platforms) ==
    LET withGpus == SelectSeq(platforms, HasGpus)
    IN  IF withGpus # <<>> THEN withGpus[1] ELSE platforms[1]

RequestedTypes(env) == IF env.types = {} THEN {"gpu"} ELSE env.types

(* UFO_DEVICES: indices beyond the devices found are dropped, and one that *)
(* is named twice is taken twice.                                          *)
Subset(devices, wanted) ==
    LET valid == SelectSeq(wanted, LAMBDA i : i + 1 \in DOMAIN devices)
    IN  [k \in DOMAIN valid |-> devices[valid[k] + 1]]

Restricted(devices, env) ==
    IF env.devices = <<>> THEN devices ELSE Subset(devices, env.devices)

SelectedDevices(platforms, env) ==
    IF platforms = <<>> THEN <<>>
    ELSE Restricted(SelectSeq(PreferredPlatform(platforms),
                              LAMBDA d : TypeOf[d] \in RequestedTypes(env)), env)

(* Without a platform or a device ufo_resources_new returns NULL and sets  *)
(* an error.                                                               *)
Constructible(platforms, env) == SelectedDevices(platforms, env) # <<>>

NewResources(platforms, env) ==
    [devices |-> SelectedDevices(platforms, env), paths |-> SearchPaths,
     programs |-> {}, kernels |-> <<>>, cache |-> <<>>]

(* ufo_resources_get_gpu_nodes of the object named r. *)
GpuNodes(r, R) == [i \in DOMAIN R.devices |-> <<r, i>>]

AddedPath(R, dir) == [R EXCEPT !.paths = Append(@, dir)]

----------------------------------------------------------------------------
(* Kernels.  A request returns the object afterwards and the kernel.       *)

Root == "/"

Directories(R, file) == IF file \in Absolute THEN <<Root>> ELSE R.paths

(* lookup_kernel_path, then read_file: what is behind the first directory  *)
(* that has the file.                                                      *)
FileContentLast(R, files, file) ==
    LET hits == SelectSeq(Directories(R, file), LAMBDA d : files[<<d, file>>] # NoFile)
    IN  IF hits = <<>> THEN NoFile ELSE files[<<hits[Len(hits)], file>>]

FileContent(R, files, file) ==
    LET hits == SelectSeq(Directories(R, file), LAMBDA d : files[<<d, file>>] # NoFile)
    IN  IF hits = <<>> THEN NoFile ELSE files[<<hits[1], file>>]

(* The build loop stops at the first device the compiler refuses; the      *)
(* program is then dropped.                                                *)
BuildsForFirst(R, source) == R.devices[1] \in CompilesOn[source]
Builds(R, source) == ToSet(R.devices) \subseteq CompilesOn[source]

BuiltBefore(R, source) == \E p \in R.programs : p.source = source

(* add_program_from_source: a program that was built before is reused      *)
(* whatever the options were.                                              *)
WithProgram(R, source, options) ==
    IF BuiltBefore(R, source) THEN R
    ELSE [R EXCEPT !.programs = @ \cup {[source |-> source, options |-> options]}]

KernelName(source, name) ==
    IF name # AnyName THEN name
    ELSE IF KernelsIn[source] = <<>> THEN "" ELSE KernelsIn[source][1]

Failed(R) == [resources |-> R, kernel |-> NoKernel]

(* create_kernel *)
WithKernel(R, source, name) ==
    LET program == CHOOSE p \in R.programs : p.source = source
        kernel == [source |-> source, name |-> KernelName(source, name),
                   options |-> program.options]
    IN  IF kernel.name \notin ToSet(KernelsIn[source]) THEN Failed(R)
        ELSE [resources |-> [R EXCEPT !.kernels = Append(@, kernel)], kernel |-> kernel]

KernelFromSource(R, source, name, options) ==
    IF ~BuiltBefore(R, source) /\ ~Builds(R, source) THEN Failed(R)
    ELSE WithKernel(WithProgram(R, source, options), source, name)

Kernel(R, files, file, name, options) ==
    LET source == FileContent(R, files, file)
    IN  IF source \in {NoFile, Unreadable} THEN Failed(R)
        ELSE KernelFromSource(R, source, name, options)

(* A request without a name is never cached. *)
IsCached(R, file, name) == name # AnyName /\ <<file, name>> \in DOMAIN R.cache

CachedKernel(R, files, file, name) ==
    LET made == Kernel(R, files, file, name, NoOptions)
        key == <<file, name>>
    IN  IF IsCached(R, file, name)
          THEN [resources |-> R, kernel |-> R.kernels[R.cache[key]]]
        ELSE IF made.kernel = NoKernel \/ name = AnyName THEN made
        ELSE [made EXCEPT !.resources.cache = (key :> Len(made.resources.kernels)) @@ @]

=============================================================================
