------------------------------- MODULE Bundles -------------------------------
(***************************************************************************)
(* The runtimes: the library and the worker of each platform, under which  *)
(* names the release packs them into a bundle and the exporter finds them  *)
(* there (src/scripts, runtime_assets.py), where the exporter puts them in *)
(* an archive (packaging.py, constants.py) and where the FMU library looks *)
(* for its worker on the system it has been loaded on (lib.rs).            *)
(*                                                                         *)
(* A path is a sequence of names.                                          *)
(***************************************************************************)

AllPlatforms == <<"linux64", "win64", "darwin64", "darwinarm64">>

\* FMI 2 has one directory for both kinds of macOS.
FmiPlatformDirectory(platform) ==
    IF platform = "darwinarm64" THEN "darwin64" ELSE platform

Suffix(platform) ==
    CASE platform = "linux64" -> ".so"
      [] platform = "win64" -> ".dll"
      [] OTHER -> ".dylib"

WorkerName(platform) ==
    IF platform = "win64" THEN "ep2fmu-worker.exe" ELSE "ep2fmu-worker"

-----------------------------------------------------------------------------
(* write_fmu.                                                              *)

LibraryPath(platform, identifier) ==
    <<"binaries", FmiPlatformDirectory(platform), identifier, Suffix(platform)>>
WorkerPath(platform) ==
    <<"resources", "bin", FmiPlatformDirectory(platform), WorkerName(platform)>>

\* The library and the worker of a platform.
RuntimeEntries(platform, bundle, identifier) ==
    [path \in {LibraryPath(platform, identifier), WorkerPath(platform)} |->
        IF path = WorkerPath(platform) THEN <<"worker", bundle.worker>>
                                       ELSE <<"library", bundle.library>>]

\* A mutant of the next: only the libraries are compared.
LibrariesAgree(one, other) ==
    \A path \in DOMAIN one \cap DOMAIN other :
        one[path][1] = "library" => one[path] = other[path]

\* Two runtimes that share a path share its content.
Agree(one, other) ==
    \A path \in DOMAIN one \cap DOMAIN other : one[path] = other[path]

-----------------------------------------------------------------------------
(* Where the FMU library looks on the system it has been loaded on.        *)

SystemOf(platform) ==
    CASE platform = "linux64" -> "linux"
      [] platform = "win64" -> "windows"
      [] OTHER -> "macos"

PlatformDirectory(system) ==
    CASE system = "linux" -> "linux64"
      [] system = "windows" -> "win64"
      [] system = "macos" -> "darwin64"

WorkerFilename(system) ==
    IF system = "windows" THEN "ep2fmu-worker.exe" ELSE "ep2fmu-worker"

\* spawn_worker: resource_dir/bin/<platform_directory>/<worker_filename>.
SpawnedFrom(system) ==
    <<"resources", "bin", PlatformDirectory(system), WorkerFilename(system)>>
=============================================================================
