------------------------------- MODULE Release -------------------------------
(***************************************************************************)
(* The release: four runtimes are compiled and packed                      *)
(* (scripts/package_runtime.py), the two of macOS merged                   *)
(* (scripts/merge_macos_runtime.py) and the wheel published with the       *)
(* bundles the exporter loads (src/ep2fmu/runtime_assets.py), each in a    *)
(* job of .github/workflows/release.yml.  Any job may fail at any point    *)
(* and be run again; re-running one that has succeeded re-runs those that  *)
(* need it.                                                                *)
(*                                                                         *)
(* An executable is the set of the machine code in it, each piece known by *)
(* its platform and by the attempt that compiled it; a bundle is a         *)
(* function from the names of its members to executables.                  *)
(***************************************************************************)
EXTENDS Naturals, Sequences, Bundles

CONSTANTS
    MaxAttempts,  \* bound: how often each job is started
    None          \* no release

ASSUME AttemptsAssumption == MaxAttempts \in Nat

VARIABLES
    phase,      \* job -> what it is doing
    attempt,    \* job -> how often it has been started
    directory,  \* job -> the bundles in its src/ep2fmu/runtime, by platform
    artifacts,  \* the name of an artifact -> the bundles in it, by platform
    index       \* the bundles in the wheel on the package index, or None

vars == <<phase, attempt, directory, artifacts, index>>

RuntimeJobs == {"linux64", "win64", "darwin64", "darwinarm64"}
Jobs == RuntimeJobs \cup {"macos-universal", "publish"}
Running == {"download", "work", "upload"}

Init ==
    /\ phase = [job \in Jobs |-> "waiting"]
    /\ attempt = [job \in Jobs |-> 0]
    /\ directory = [job \in Jobs |-> << >>]
    /\ artifacts = << >>
    /\ index = None

-----------------------------------------------------------------------------
(* The jobs and their order.                                               *)

\* A mutant of the next: the wheel waits for the compilers only.
NeedsRuntimes(job) == IF job \in RuntimeJobs THEN {} ELSE RuntimeJobs

Needs(job) ==
    CASE job \in RuntimeJobs -> {}
      [] job = "macos-universal" -> RuntimeJobs
      [] job = "publish" -> RuntimeJobs \cup {"macos-universal"}

\* A mutant of the next: every artifact, those of the merger first.
AllArtifacts(job) ==
    CASE job \in RuntimeJobs -> <<>>
      [] job = "macos-universal" -> <<"darwin64", "darwinarm64">>
      [] job = "publish" ->
             <<"linux64", "win64", "macos-universal", "darwin64", "darwinarm64">>

\* The artifacts a job downloads, named after the jobs that have made them.
Downloaded(job) ==
    CASE job \in RuntimeJobs -> <<>>
      [] job = "macos-universal" -> <<"darwin64", "darwinarm64">>
      [] job = "publish" -> <<"linux64", "win64", "macos-universal">>

Start(job) ==
    /\ phase[job] \in {"waiting", "failed"}
    /\ \A needed \in Needs(job) : phase[needed] = "succeeded"
    /\ attempt[job] < MaxAttempts
    /\ phase' = [phase EXCEPT ![job] = "download"]
    /\ attempt' = [attempt EXCEPT ![job] = @ + 1]
    /\ directory' = [directory EXCEPT ![job] = << >>]
    /\ UNCHANGED <<artifacts, index>>

Fail(job) ==
    /\ phase[job] \in Running
    /\ phase' = [phase EXCEPT ![job] = "failed"]
    /\ UNCHANGED <<attempt, directory, artifacts, index>>

\* Once nothing runs any more.
Rerun(job) ==
    /\ \A other \in Jobs : phase[other] \notin Running
    /\ phase[job] = "succeeded"
    /\ attempt[job] < MaxAttempts
    /\ phase' = [other \in Jobs |->
                    IF other = job \/ job \in Needs(other) THEN "waiting" ELSE phase[other]]
    /\ UNCHANGED <<attempt, directory, artifacts, index>>

\* Into one directory, where a later bundle replaces an earlier of its platform; a
\* pattern that matches nothing downloads nothing.
Download(job) ==
    LET names == Downloaded(job)
        there == {i \in DOMAIN names : names[i] \in DOMAIN artifacts}
        Holding(platform) == {i \in there : platform \in DOMAIN artifacts[names[i]]}
        Last(S) == CHOOSE i \in S : \A j \in S : j <= i
    IN  /\ phase[job] = "download"
        /\ phase' = [phase EXCEPT ![job] = "work"]
        /\ directory' = [directory EXCEPT ![job] =
               [platform \in UNION {DOMAIN artifacts[names[i]] : i \in there} |->
                   artifacts[names[Last(Holding(platform))]][platform]]]
        /\ UNCHANGED <<attempt, artifacts, index>>

-----------------------------------------------------------------------------
(* The scripts.                                                            *)

\* The name of a library inside a bundle.
LibraryMember(platform) == <<"ep2fmu_fmi2", Suffix(platform)>>
Members(platform) == {LibraryMember(platform), <<WorkerName(platform)>>}

\* cargo build and package_runtime.py.
PackageRuntime(platform) ==
    /\ platform \in RuntimeJobs
    /\ phase[platform] = "work"
    /\ phase' = [phase EXCEPT ![platform] = "upload"]
    /\ directory' = [directory EXCEPT ![platform] =
           [made \in {platform} |->
               [member \in Members(platform) |-> {<<made, attempt[platform]>>}]]]
    /\ UNCHANGED <<attempt, artifacts, index>>

\* lipo makes one executable of two.
Lipo(x64, arm64) == x64 \cup arm64

\* The bundle of either macOS platform.
Merged(x64, arm64, platform) ==
    [member \in Members(platform) |-> Lipo(x64[member], arm64[member])]

\* merge_macos_runtime.py; it fails if a bundle it is given is not there.
MergeMacosRuntime ==
    LET job == "macos-universal"
        macos == {"darwin64", "darwinarm64"}
        bundles == directory[job]
    IN  /\ phase[job] = "work"
        /\ macos \subseteq DOMAIN bundles
        /\ phase' = [phase EXCEPT ![job] = "upload"]
        /\ directory' = [directory EXCEPT ![job] =
               [platform \in macos |->
                   Merged(bundles["darwin64"], bundles["darwinarm64"], platform)]]
        /\ UNCHANGED <<attempt, artifacts, index>>

\* The wheel has the bundles of the directory.
BuildWheel ==
    /\ phase["publish"] = "work"
    /\ phase' = [phase EXCEPT !["publish"] = "upload"]
    /\ UNCHANGED <<attempt, directory, artifacts, index>>

\* An artifact of an earlier attempt is replaced.
Upload(job) ==
    /\ job # "publish"
    /\ phase[job] = "upload"
    /\ phase' = [phase EXCEPT ![job] = "succeeded"]
    /\ artifacts' = [name \in DOMAIN artifacts \cup {job} |->
                        IF name = job THEN directory[job] ELSE artifacts[name]]
    /\ UNCHANGED <<attempt, directory, index>>

\* uv publish, of the wheel alone and in one step; the checksums and the GitHub
\* release before it are left out.  The index takes a version once.
Publish ==
    /\ phase["publish"] = "upload"
    /\ index = None
    /\ phase' = [phase EXCEPT !["publish"] = "succeeded"]
    /\ index' = directory["publish"]
    /\ UNCHANGED <<attempt, directory, artifacts>>

Next ==
    \/ \E job \in Jobs :
        \/ Start(job)
        \/ Fail(job)
        \/ Rerun(job)
        \/ Download(job)
        \/ PackageRuntime(job)
        \/ Upload(job)
    \/ MergeMacosRuntime
    \/ BuildWheel
    \/ Publish

Spec == Init /\ [][Next]_vars

-----------------------------------------------------------------------------
(* What the exporter makes of the release.                                 *)

Loadable(platform) ==
    /\ platform \in DOMAIN index
    /\ Members(platform) \subseteq DOMAIN index[platform]

\* load_runtime_asset.
LoadRuntimeAsset(platform) ==
    [library |-> index[platform][LibraryMember(platform)],
     worker |-> index[platform][<<WorkerName(platform)>>]]

\* Whatever has failed and been repeated, an installed wheel has for each platform
\* a library and a worker that run there (release.yml, both scripts,
\* runtime_assets.py).
EveryPlatformLoads ==
    index # None =>
        \A platform \in RuntimeJobs :
            /\ Loadable(platform)
            /\ LET asset == LoadRuntimeAsset(platform)
               IN  \A executable \in {asset.library, asset.worker} :
                       \E code \in executable : code[1] = platform

\* A build for all platforms, the default, meets no collision between runtimes:
\* the macOS selectors share their entries with each other, code for both
\* architectures in them (write_fmu, "must contain the same universal2 binaries").
SelectorsAgree ==
    index # None =>
        LET Entries(platform) ==
                RuntimeEntries(platform, LoadRuntimeAsset(platform), "identifier")
        IN  \A one, other \in {p \in RuntimeJobs : Loadable(p)} :
                Agree(Entries(one), Entries(other))
=============================================================================
