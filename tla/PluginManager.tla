--------------------------- MODULE PluginManager ---------------------------
(***************************************************************************)
(* Where tasks come from (ufo/ufo-plugin-manager.c): a plugin manager      *)
(* looks for the shared object of a task in its directories, opens it and  *)
(* keeps the constructor found in it.                                      *)
(*                                                                         *)
(* A name is a sequence of characters, of which only the separators are    *)
(* told apart from the rest.  A file is a record: the package it belongs   *)
(* to and its name.  A library is a build of a shared object; opening one  *)
(* is external: GModule knows modules by their path and hands out the one  *)
(* that is open already, whatever lies in the file by now.                 *)
(***************************************************************************)
EXTENDS Naturals, SequencesExt, TLC

CONSTANTS
    Manager,      (* names for plugin managers                               *)
    Library,
    Exports,      (* Exports[l]: the functions library l exports              *)
    EnvPath,      (* UFO_PLUGIN_PATH, split at the colons                     *)
    PluginDir,    (* the directory of the installation                       *)
    File          (* the files that may exist                                *)

NoFile == "no file"
Broken == "broken"      (* a file that is no shared object for this machine  *)
BuiltIn == "built in"

NoPackage == <<>>
Root == "/"
InRoot == <<Root>>   (* in the place of a package: the file name is an absolute path *)
Separators == {"-", "_", " "}

Dummy == <<"[dummy]">>
CopyTask == <<"[copy]">>

----------------------------------------------------------------------------
(* Names *)

(* ufo_transform_string *)
Joined(name, separator) ==
    FlattenSeq([i \in DOMAIN name |->
        IF name[i] \in Separators THEN separator ELSE <<name[i]>>])

Underscore == <<"_">>

(* libufofilter<name>.so, with ufo_<name>_task_new in it *)
FilterFileJoined(name) == [package |-> NoPackage, name |-> Joined(name, <<>>)]
FilterFile(name) == [package |-> NoPackage, name |-> name]
FilterFunction(name) == Joined(name, Underscore)

(* <package>/libufo<name>.so, with ufo_<package>_<name>_task_new in it *)
PackageFile(package, name) ==
    [package |-> Joined(package, <<>>), name |-> Joined(name, <<>>)]
PackageFunction(package, name) ==
    Joined(package, Underscore) \o Underscore \o Joined(name, Underscore)

----------------------------------------------------------------------------
VARIABLES
    installed,    (* installed[<<d, f>>]: the library in file f of directory d *)
    loaded,       (* the modules that are open, by their path                *)
    managers,     (* the managers that exist: paths and constructors (new_funcs) *)
    asked,        (* the last request and its answer, until a file changes   *)
    given,        (* history: what each manager has answered                 *)
    aborted       (* an assertion has ended the program                      *)

pluginVars == <<installed, loaded, managers, asked, given, aborted>>

InitPlugins ==
    /\ loaded = <<>>
    /\ managers = <<>>
    /\ asked = <<>>
    /\ given = {}
    /\ aborted = FALSE

(* ufo_plugin_manager_init; empty parts of the variable are ignored. *)
SearchPathInstalledFirst == <<PluginDir>> \o SelectSeq(EnvPath, LAMBDA d : d # "")
SearchPath == SelectSeq(EnvPath, LAMBDA d : d # "") \o <<PluginDir>>

NewManager(m) ==
    /\ ~aborted
    /\ m \notin DOMAIN managers
    /\ managers' = (m :> [paths |-> SearchPath, constructors |-> <<>>]) @@ managers
    /\ UNCHANGED <<installed, loaded, asked, given, aborted>>

(* ufo_plugin_manager_finalize: the modules stay open. *)
ReleaseManager(m) ==
    /\ ~aborted
    /\ m \in DOMAIN managers
    /\ managers' = [i \in DOMAIN managers \ {m} |-> managers[i]]
    /\ given' = {g \in given : g.manager # m}
    /\ asked' = <<>>
    /\ UNCHANGED <<installed, loaded, aborted>>

(* Somebody builds, installs or deletes a plugin. *)
Install(d, f, content) ==
    /\ ~aborted
    /\ installed' = [installed EXCEPT ![<<d, f>>] = content]
    /\ asked' = <<>>
    /\ UNCHANGED <<loaded, managers, given, aborted>>

(* plugin_manager_get_path: the directories that have the file, in order. *)
Hits(m, f) ==
    SelectSeq(IF f.package = InRoot THEN <<Root>> ELSE managers[m].paths,
              LAMBDA d : installed[<<d, f>>] # NoFile)

IsFound(m, f) == Hits(m, f) # <<>>
PathOf(m, f) == <<Hits(m, f)[1], f>>

(* g_module_open *)
Opened(path) == IF path \in DOMAIN loaded THEN loaded[path] ELSE installed[path]

KeyOfFunction(function, f) == <<function>>
KeyOf(function, f) == <<function, f>>

IsKnown(m, function, f) == KeyOf(function, f) \in DOMAIN managers[m].constructors

CanLoadAny(m, function, f) == IsFound(m, f) /\ Opened(PathOf(m, f)) # Broken
CanLoad(m, function, f) ==
    /\ IsFound(m, f)
    /\ Opened(PathOf(m, f)) # Broken
    /\ function \in Exports[Opened(PathOf(m, f))]

Answer(m, function, f, library) ==
    LET answer == [manager |-> m, function |-> function, file |-> f, library |-> library]
    IN  /\ asked' = [answer |-> answer, first |-> \A path \in DOMAIN loaded : path[2] # f]
        /\ given' = IF library = NoFile THEN given ELSE given \cup {answer}
        /\ UNCHANGED installed

GetKnown(m, function, f) ==
    /\ IsKnown(m, function, f)
    /\ Answer(m, function, f, managers[m].constructors[KeyOf(function, f)])
    /\ UNCHANGED <<loaded, managers, aborted>>

Load(m, function, f) ==
    LET path == PathOf(m, f)
    IN  /\ ~IsKnown(m, function, f)
        /\ CanLoad(m, function, f)
        /\ loaded' = (path :> Opened(path)) @@ loaded
        /\ managers' = [managers EXCEPT ![m].constructors =
                            (KeyOf(function, f) :> Opened(path)) @@ @]
        /\ Answer(m, function, f, Opened(path))
        /\ UNCHANGED aborted

(* A module that lacks the function is closed again. *)
CannotLoad(m, function, f) ==
    /\ ~IsKnown(m, function, f)
    /\ ~CanLoad(m, function, f)
    /\ Answer(m, function, f, NoFile)
    /\ UNCHANGED <<loaded, managers>>

(* ufo_plugin_manager_get_plugin *)
GetPlugin(m, function, f) ==
    /\ ~aborted
    /\ m \in DOMAIN managers
    /\ GetKnown(m, function, f) \/ Load(m, function, f)
         \/ (CannotLoad(m, function, f) /\ UNCHANGED aborted)

GetBuiltIn(m, name) ==
    /\ ~aborted
    /\ m \in DOMAIN managers
    /\ name \in {Dummy, CopyTask}
    /\ Answer(m, name, FilterFile(name), BuiltIn)
    /\ UNCHANGED <<loaded, managers, aborted>>

GetTask(m, name) ==
    \/ GetBuiltIn(m, name)
    \/ /\ name \notin {Dummy, CopyTask}
       /\ GetPlugin(m, FilterFunction(name), FilterFile(name))

(* What was got is logged, and to ask NULL for its identifier fails an     *)
(* assertion: a missing task of a package ends the program.                *)
GetTaskFromPackage(m, package, name) ==
    LET function == PackageFunction(package, name)
        f == PackageFile(package, name)
    IN  /\ ~aborted
        /\ m \in DOMAIN managers
        /\ \/ GetKnown(m, function, f)
           \/ Load(m, function, f)
           \/ CannotLoad(m, function, f) /\ aborted' = TRUE

----------------------------------------------------------------------------
(* ufo_plugin_manager_get_all_task_names: of each directory, the names of  *)
(* filters without underscore and space; one that is there twice is listed *)
(* twice, which a set does not show.                                       *)
IsListed(f) == f.package = NoPackage /\ ToSet(f.name) \cap {"_", " "} = {}

TaskNames(m) ==
    {f.name : f \in {g \in File : /\ IsListed(g)
                                  /\ \E d \in ToSet(managers[m].paths) :
                                        installed[<<d, g>>] # NoFile}}

----------------------------------------------------------------------------
(* Properties *)

HasFunction(library, function) == library \in Library /\ function \in Exports[library]

(* The library a request should find: that in the first directory, in the  *)
(* order of UFO_PLUGIN_PATH and then of the installation, that has it.     *)
Expected(f) ==
    LET order == IF f.package = InRoot THEN <<Root>> ELSE Append(EnvPath, PluginDir)
        first == {i \in DOMAIN order :
                    /\ order[i] # ""
                    /\ installed[<<order[i], f>>] # NoFile
                    /\ \A j \in 1..i - 1 : order[j] = "" \/ installed[<<order[j], f>>] = NoFile}
    IN  {installed[<<order[i], f>>] : i \in first}

(* A request gets the task it names: from the first directory that has it, *)
(* if nothing of this name has been opened before, and from a library that *)
(* exports it in any case.  The names that are listed can be found, a      *)
(* request that failed succeeds when it is repeated after the file was     *)
(* repaired, and what a manager has given once it gives again.             *)
PluginFits ==
    /\ asked # <<>> /\ asked.answer.library # BuiltIn =>
          LET a == asked.answer
          IN  /\ a.library # NoFile => HasFunction(a.library, a.function)
              /\ asked.first =>
                    {a.library} \ {NoFile} = {l \in Expected(a.file) : HasFunction(l, a.function)}
    /\ \A a, b \in given :
          a.manager = b.manager /\ a.function = b.function /\ a.file = b.file
              => a.library = b.library
    /\ \A m \in DOMAIN managers : \A name \in TaskNames(m) : IsFound(m, FilterFile(name))

=============================================================================
