---------------------------- MODULE ReleaseProofs ----------------------------
(***************************************************************************)
(* That a published wheel has a runtime for every platform and none that   *)
(* collide, however often its jobs have failed and been repeated.          *)
(***************************************************************************)
EXTENDS Release, TLAPS

Phases == {"waiting", "download", "work", "upload", "failed", "succeeded"}
Macos == {"darwin64", "darwinarm64"}

\* A bundle whose members hold code for a platform.
Serves(bundle, platform) ==
    /\ DOMAIN bundle = Members(platform)
    /\ \A member \in Members(platform) :
           \E code \in bundle[member] : code[1] = platform

\* What the three kinds of job leave in their directories.
Single(bundles, platform) ==
    DOMAIN bundles = {platform} /\ Serves(bundles[platform], platform)

Universal(bundles) ==
    /\ DOMAIN bundles = Macos
    /\ bundles["darwin64"] = bundles["darwinarm64"]
    /\ \A platform \in Macos : Serves(bundles[platform], platform)

Complete(bundles) ==
    /\ DOMAIN bundles = RuntimeJobs
    /\ bundles["darwin64"] = bundles["darwinarm64"]
    /\ \A platform \in RuntimeJobs : Serves(bundles[platform], platform)

\* A job that runs, or has run, has been preceded by those it needs.
Ordered ==
    \A job \in Jobs :
        phase[job] \in Running \cup {"succeeded"} =>
            \A needed \in Needs(job) : phase[needed] = "succeeded"

Artifacts ==
    /\ \A job \in Jobs \ {"publish"} :
           phase[job] = "succeeded" => job \in DOMAIN artifacts
    /\ \A platform \in RuntimeJobs :
           platform \in DOMAIN artifacts => Single(artifacts[platform], platform)
    /\ "macos-universal" \in DOMAIN artifacts => Universal(artifacts["macos-universal"])

Directories ==
    /\ \A platform \in RuntimeJobs :
           phase[platform] = "upload" => Single(directory[platform], platform)
    /\ phase["macos-universal"] = "work" =>
           \A platform \in Macos :
               /\ platform \in DOMAIN directory["macos-universal"]
               /\ Serves(directory["macos-universal"][platform], platform)
    /\ phase["macos-universal"] = "upload" => Universal(directory["macos-universal"])
    /\ phase["publish"] \in {"work", "upload"} => Complete(directory["publish"])

Types ==
    /\ phase \in [Jobs -> Phases]
    /\ attempt \in [Jobs -> Nat]
    /\ DOMAIN directory = Jobs

\* The inductive invariant.
Consistent ==
    /\ Types
    /\ Ordered
    /\ Artifacts
    /\ Directories
    /\ index # None => Complete(index)

-----------------------------------------------------------------------------

\* What the selections by job and platform come to.
LEMMA NeedsOf ==
    /\ \A job \in RuntimeJobs : Needs(job) = {}
    /\ Needs("macos-universal") = RuntimeJobs
    /\ Needs("publish") = RuntimeJobs \cup {"macos-universal"}
  BY Zenon DEF Needs, RuntimeJobs

LEMMA DownloadedOf ==
    /\ \A job \in RuntimeJobs : Downloaded(job) = <<>>
    /\ Downloaded("macos-universal") = <<"darwin64", "darwinarm64">>
    /\ Downloaded("publish") = <<"linux64", "win64", "macos-universal">>
  BY Zenon DEF Downloaded, RuntimeJobs

LEMMA SuffixOf ==
    /\ Suffix("linux64") = ".so"
    /\ Suffix("win64") = ".dll"
    /\ Suffix("darwin64") = ".dylib"
    /\ Suffix("darwinarm64") = ".dylib"
  BY Zenon DEF Suffix

LEMMA MacosMembers == Members("darwin64") = Members("darwinarm64")
  BY SuffixOf DEF Members, LibraryMember, WorkerName

LEMMA InitConsistent == Init => Consistent
  BY DEF Init, Consistent, Types, Phases, Ordered, Artifacts, Directories, Running, Jobs,
         RuntimeJobs, Needs

LEMMA StartConsistent ==
    ASSUME Consistent, NEW job \in Jobs, Start(job)
    PROVE Consistent'
  <1> USE DEF Consistent, Start
  <1>1. Types'
    BY DEF Types, Phases
  <1>2. Ordered'
    BY DEF Types, Ordered, Running
  <1>3. Artifacts'
    BY DEF Types, Artifacts
  <1>4. Directories'
    BY DEF Types, Directories, Jobs, RuntimeJobs
  <1>5. QED
    BY <1>1, <1>2, <1>3, <1>4

LEMMA FailConsistent ==
    ASSUME Consistent, NEW job \in Jobs, Fail(job)
    PROVE Consistent'
  <1> USE DEF Consistent, Fail
  <1>1. Types'
    BY DEF Types, Phases
  <1>2. Ordered'
    BY DEF Types, Ordered, Running
  <1>3. Artifacts'
    BY DEF Types, Artifacts
  <1>4. Directories'
    BY DEF Types, Directories, Jobs, RuntimeJobs
  <1>5. QED
    BY <1>1, <1>2, <1>3, <1>4

LEMMA RerunConsistent ==
    ASSUME Consistent, NEW job \in Jobs, Rerun(job)
    PROVE Consistent'
  <1> USE DEF Consistent, Rerun
  <1>1. Types'
    BY DEF Types, Phases
  <1>2. Ordered'
    <2> SUFFICES ASSUME NEW one \in Jobs, phase'[one] \in Running \cup {"succeeded"},
                        NEW needed \in Needs(one)
                 PROVE phase'[needed] = "succeeded"
      BY DEF Ordered
    <2>1. needed \in Jobs
      BY NeedsOf DEF Jobs
    <2>2. one # job /\ job \notin Needs(one) /\ phase[one] = "succeeded"
      BY DEF Types, Running
    <2>3. phase[needed] = "succeeded"
      BY <2>2 DEF Ordered
    <2>4. job \notin Needs(needed)
      BY <2>1, <2>2, NeedsOf DEF Jobs, RuntimeJobs
    <2>5. QED
      BY <2>1, <2>2, <2>3, <2>4
  <1>3. Artifacts'
    BY DEF Types, Artifacts
  <1>4. Directories'
    BY DEF Types, Directories, Jobs, RuntimeJobs, Running
  <1>5. QED
    BY <1>1, <1>2, <1>3, <1>4

-----------------------------------------------------------------------------
(* Downloads.                                                              *)

\* The latest of one is that one.
LEMMA LatestOfOne ==
    ASSUME NEW k \in Nat, NEW S, S = {k}
    PROVE (CHOOSE i \in S : \A j \in S : j <= i) = k
  OBVIOUS

\* Both bundles of macOS, each from its own job.
LEMMA DownloadForMerger ==
    ASSUME Consistent, Download("macos-universal")
    PROVE \A platform \in Macos :
              /\ platform \in DOMAIN directory'["macos-universal"]
              /\ Serves(directory'["macos-universal"][platform], platform)
  <1> DEFINE names == Downloaded("macos-universal")
             there == {i \in DOMAIN names : names[i] \in DOMAIN artifacts}
             Holding(p) == {i \in there : p \in DOMAIN artifacts[names[i]]}
             Last(S) == CHOOSE i \in S : \A j \in S : j <= i
             all == UNION {DOMAIN artifacts[names[i]] : i \in there}
  <1>1. directory'["macos-universal"] =
            [platform \in all |-> artifacts[names[Last(Holding(platform))]][platform]]
    BY DEF Download, Consistent, Types, Jobs
  <1>2. names = <<"darwin64", "darwinarm64">>
    BY DownloadedOf
  <1>3. /\ {"darwin64", "darwinarm64"} \subseteq DOMAIN artifacts
        /\ Single(artifacts["darwin64"], "darwin64")
        /\ Single(artifacts["darwinarm64"], "darwinarm64")
    BY NeedsOf DEF Consistent, Ordered, Artifacts, Download, Running, Jobs, RuntimeJobs
  <1>4. there = {1, 2} /\ names[1] = "darwin64" /\ names[2] = "darwinarm64"
    BY <1>2, <1>3
  <1>5. Holding("darwin64") = {1} /\ Holding("darwinarm64") = {2}
    BY <1>3, <1>4 DEF Single
  <1>6. all = Macos
    BY <1>3, <1>4 DEF Single, Macos
  <1>7. Last(Holding("darwin64")) = 1 /\ Last(Holding("darwinarm64")) = 2
    BY <1>5, LatestOfOne
  <1> HIDE DEF names, there, Holding, Last, all
  <1>8. QED
    BY <1>1, <1>3, <1>4, <1>6, <1>7 DEF Single, Macos

\* A bundle for each platform.
LEMMA DownloadForPublisher ==
    ASSUME Consistent, Download("publish")
    PROVE Complete(directory'["publish"])
  <1> DEFINE names == Downloaded("publish")
             there == {i \in DOMAIN names : names[i] \in DOMAIN artifacts}
             Holding(p) == {i \in there : p \in DOMAIN artifacts[names[i]]}
             Last(S) == CHOOSE i \in S : \A j \in S : j <= i
             all == UNION {DOMAIN artifacts[names[i]] : i \in there}
  <1>1. directory'["publish"] =
            [platform \in all |-> artifacts[names[Last(Holding(platform))]][platform]]
    BY DEF Download, Consistent, Types, Jobs
  <1>2. names = <<"linux64", "win64", "macos-universal">>
    BY DownloadedOf
  <1>3. /\ {"linux64", "win64", "macos-universal"} \subseteq DOMAIN artifacts
        /\ Single(artifacts["linux64"], "linux64")
        /\ Single(artifacts["win64"], "win64")
        /\ Universal(artifacts["macos-universal"])
    BY NeedsOf DEF Consistent, Ordered, Artifacts, Download, Running, Jobs, RuntimeJobs
  <1>4. /\ there = {1, 2, 3}
        /\ names[1] = "linux64" /\ names[2] = "win64" /\ names[3] = "macos-universal"
    BY <1>2, <1>3
  <1>5. /\ Holding("linux64") = {1} /\ Holding("win64") = {2}
        /\ Holding("darwin64") = {3} /\ Holding("darwinarm64") = {3}
    BY <1>3, <1>4 DEF Single, Universal, Macos
  <1>6. all = RuntimeJobs
    BY <1>3, <1>4 DEF Single, Universal, Macos, RuntimeJobs
  <1>7. /\ Last(Holding("linux64")) = 1 /\ Last(Holding("win64")) = 2
        /\ Last(Holding("darwin64")) = 3 /\ Last(Holding("darwinarm64")) = 3
    BY <1>5, LatestOfOne
  <1> HIDE DEF names, there, Holding, Last, all
  <1>8. QED
    BY <1>1, <1>3, <1>4, <1>6, <1>7 DEF Complete, Single, Universal, Macos, RuntimeJobs

LEMMA DownloadConsistent ==
    ASSUME Consistent, NEW job \in Jobs, Download(job)
    PROVE Consistent'
  <1>1. Types'
    BY DEF Consistent, Download, Types, Phases
  <1>2. Ordered'
    BY DEF Consistent, Download, Types, Ordered, Running
  <1>3. Artifacts'
    BY DEF Consistent, Download, Types, Artifacts
  <1>4. /\ UNCHANGED index
        /\ phase' = [phase EXCEPT ![job] = "work"]
        /\ \A other \in Jobs \ {job} : directory'[other] = directory[other]
    BY DEF Consistent, Download, Types
  <1>5. Directories'
    BY <1>4, DownloadForMerger, DownloadForPublisher
    DEF Consistent, Types, Directories, Jobs, RuntimeJobs
  <1>6. QED
    BY <1>1, <1>2, <1>3, <1>4, <1>5 DEF Consistent

-----------------------------------------------------------------------------
(* The scripts.                                                            *)

LEMMA PackageConsistent ==
    ASSUME Consistent, NEW platform \in RuntimeJobs, PackageRuntime(platform)
    PROVE Consistent'
  <1> USE DEF Consistent, PackageRuntime
  <1>1. Types'
    BY DEF Types, Phases, Jobs
  <1>2. Ordered'
    BY DEF Types, Ordered, Running
  <1>3. Artifacts'
    BY DEF Types, Artifacts
  <1>4. Directories'
    <2>1. Single(directory'[platform], platform)
      <3>1. DOMAIN directory'[platform] = {platform}
        BY DEF Types, Jobs
      <3>2. directory'[platform][platform] =
                [member \in Members(platform) |-> {<<platform, attempt[platform]>>}]
        BY DEF Types, Jobs
      <3>3. ASSUME NEW member \in Members(platform)
            PROVE \E code \in directory'[platform][platform][member] : code[1] = platform
        <4> DEFINE code == <<platform, attempt[platform]>>
        <4>1. directory'[platform][platform][member] = {code}
          BY <3>2
        <4>2. code[1] = platform
          OBVIOUS
        <4> HIDE DEF code
        <4>3. QED
          BY <4>1, <4>2
      <3>4. DOMAIN directory'[platform][platform] = Members(platform)
        BY <3>2
      <3>5. QED
        BY <3>1, <3>3, <3>4 DEF Single, Serves
    <2>2. QED
      BY <2>1 DEF Directories, Types, Jobs, RuntimeJobs
  <1>5. QED
    BY <1>1, <1>2, <1>3, <1>4

\* The merged bundle serves either architecture.
LEMMA MergedServes ==
    ASSUME NEW x64, NEW arm64, Serves(x64, "darwin64"), Serves(arm64, "darwinarm64")
    PROVE /\ Serves(Merged(x64, arm64, "darwin64"), "darwin64")
          /\ Serves(Merged(x64, arm64, "darwinarm64"), "darwinarm64")
          /\ Merged(x64, arm64, "darwin64") = Merged(x64, arm64, "darwinarm64")
  BY MacosMembers DEF Serves, Merged, Lipo

LEMMA MergeConsistent ==
    ASSUME Consistent, MergeMacosRuntime
    PROVE Consistent'
  <1> USE DEF Consistent, MergeMacosRuntime
  <1>1. Types'
    BY DEF Types, Phases, Jobs
  <1>2. Ordered'
    BY DEF Types, Ordered, Running
  <1>3. Artifacts'
    BY DEF Types, Artifacts
  <1>4. Directories'
    <2>1. Universal(directory'["macos-universal"])
      BY MergedServes DEF Universal, Directories, Macos, Types, Jobs
    <2>2. QED
      BY <2>1 DEF Directories, Types, Jobs, RuntimeJobs
  <1>5. QED
    BY <1>1, <1>2, <1>3, <1>4

LEMMA BuildConsistent ==
    ASSUME Consistent, BuildWheel
    PROVE Consistent'
  <1> USE DEF Consistent, BuildWheel
  <1>1. Types'
    BY DEF Types, Phases, Jobs
  <1>2. Ordered'
    BY DEF Types, Ordered, Running
  <1>3. Artifacts'
    BY DEF Types, Artifacts
  <1>4. Directories'
    BY DEF Types, Directories, Jobs, RuntimeJobs
  <1>5. QED
    BY <1>1, <1>2, <1>3, <1>4

LEMMA UploadConsistent ==
    ASSUME Consistent, NEW job \in Jobs, Upload(job)
    PROVE Consistent'
  <1> USE DEF Consistent, Upload
  <1>1. Types'
    BY DEF Types, Phases
  <1>2. Ordered'
    BY DEF Types, Ordered, Running
  <1>3. Artifacts'
    <2>1. /\ DOMAIN artifacts' = {job} \cup DOMAIN artifacts
          /\ artifacts'[job] = directory[job]
          /\ \A other \in DOMAIN artifacts \ {job} : artifacts'[other] = artifacts[other]
      OBVIOUS
    <2>2. job \in RuntimeJobs => Single(directory[job], job)
      BY DEF Directories
    <2>3. job = "macos-universal" => Universal(directory[job])
      BY DEF Directories
    <2>4. QED
      BY <2>1, <2>2, <2>3 DEF Artifacts, Types, Jobs
  <1>4. Directories'
    BY DEF Types, Directories, Jobs, RuntimeJobs
  <1>5. QED
    BY <1>1, <1>2, <1>3, <1>4

LEMMA PublishConsistent ==
    ASSUME Consistent, Publish
    PROVE Consistent'
  <1> USE DEF Consistent, Publish
  <1>1. Types'
    BY DEF Types, Phases, Jobs
  <1>2. Ordered'
    BY DEF Types, Ordered, Running
  <1>3. Artifacts'
    BY DEF Types, Artifacts, Jobs
  <1>4. Directories'
    BY DEF Types, Directories, Jobs, RuntimeJobs
  <1>5. index' # None => Complete(index')
    BY DEF Directories
  <1>6. QED
    BY <1>1, <1>2, <1>3, <1>4, <1>5

-----------------------------------------------------------------------------

\* Whatever fails and is repeated, a job works on bundles of the platforms it names
\* and the index has them all (release.yml).
THEOREM SpecConsistent == Spec => []Consistent
  <1>1. ASSUME Consistent, [Next]_vars
        PROVE Consistent'
    <2>1. CASE UNCHANGED vars
      BY <1>1, <2>1 DEF vars, Consistent, Types, Ordered, Artifacts, Directories
    <2>2. ASSUME NEW job \in Jobs, \/ Start(job) \/ Fail(job) \/ Rerun(job)
                                  \/ Download(job) \/ Upload(job)
          PROVE Consistent'
      BY <1>1, <2>2, StartConsistent, FailConsistent, RerunConsistent,
         DownloadConsistent, UploadConsistent
    <2>3. ASSUME NEW job \in Jobs, PackageRuntime(job)
          PROVE Consistent'
      <3>1. job \in RuntimeJobs
        BY <2>3 DEF PackageRuntime
      <3>2. QED
        BY <1>1, <2>3, <3>1, PackageConsistent
    <2>4. CASE MergeMacosRuntime
      BY <1>1, <2>4, MergeConsistent
    <2>5. CASE BuildWheel
      BY <1>1, <2>5, BuildConsistent
    <2>6. CASE Publish
      BY <1>1, <2>6, PublishConsistent
    <2>7. QED
      BY <1>1, <2>1, <2>2, <2>3, <2>4, <2>5, <2>6 DEF Next
  <1>2. QED
    BY <1>1, InitConsistent, PTL DEF Spec

\* An installed wheel has for each platform a library and a worker that run there.
THEOREM SpecEveryPlatformLoads == Spec => []EveryPlatformLoads
  <1>1. Consistent => EveryPlatformLoads
    <2> SUFFICES ASSUME Consistent, index # None, NEW platform \in RuntimeJobs
                 PROVE /\ Loadable(platform)
                       /\ LET asset == LoadRuntimeAsset(platform)
                          IN  \A executable \in {asset.library, asset.worker} :
                                  \E code \in executable : code[1] = platform
      BY DEF EveryPlatformLoads
    <2>1. platform \in DOMAIN index /\ Serves(index[platform], platform)
      BY DEF Consistent, Complete
    <2>2. Loadable(platform)
      BY <2>1 DEF Loadable, Serves
    <2>3. \A member \in Members(platform) :
              \E code \in index[platform][member] : code[1] = platform
      BY <2>1 DEF Serves
    <2>4. \A executable \in {LoadRuntimeAsset(platform).library,
                             LoadRuntimeAsset(platform).worker} :
              \E code \in executable : code[1] = platform
      BY <2>3 DEF LoadRuntimeAsset, Members
    <2>5. QED
      BY <2>2, <2>4
  <1>2. QED
    BY <1>1, SpecConsistent, PTL

\* A build for all platforms meets no two runtimes that share an entry and differ.
THEOREM SpecSelectorsAgree == Spec => []SelectorsAgree
  <1> DEFINE Entries(p) == RuntimeEntries(p, LoadRuntimeAsset(p), "identifier")
  <1>1. \A p : /\ DOMAIN Entries(p) = {LibraryPath(p, "identifier"), WorkerPath(p)}
               /\ Entries(p)[LibraryPath(p, "identifier")] =
                      <<"library", index[p][LibraryMember(p)]>>
               /\ Entries(p)[WorkerPath(p)] = <<"worker", index[p][<<WorkerName(p)>>]>>
    <2> TAKE p
    <2>1. LibraryPath(p, "identifier") # WorkerPath(p)
      BY DEF LibraryPath, WorkerPath
    <2>2. /\ LoadRuntimeAsset(p).library = index[p][LibraryMember(p)]
          /\ LoadRuntimeAsset(p).worker = index[p][<<WorkerName(p)>>]
      BY DEF LoadRuntimeAsset
    <2> DEFINE library == LibraryPath(p, "identifier")
               worker == WorkerPath(p)
               asset == LoadRuntimeAsset(p)
    <2>3. Entries(p) = [path \in {library, worker} |->
                           IF path = worker THEN <<"worker", asset.worker>>
                                            ELSE <<"library", asset.library>>]
      BY DEF RuntimeEntries
    <2> HIDE DEF library, worker, asset, Entries
    <2>4. /\ DOMAIN Entries(p) = {library, worker}
          /\ Entries(p)[worker] = <<"worker", asset.worker>>
          /\ library # worker => Entries(p)[library] = <<"library", asset.library>>
      BY <2>3
    <2>5. QED
      BY <2>1, <2>2, <2>4 DEF library, worker, asset
  <1> HIDE DEF Entries
  <1>2. ASSUME Consistent, index # None, NEW one \in RuntimeJobs, NEW other \in RuntimeJobs
        PROVE Agree(Entries(one), Entries(other))
    <2>1. CASE one = other
      BY <2>1 DEF Agree
    <2>2. CASE one # other /\ {one, other} # Macos
      <3>1. FmiPlatformDirectory(one) # FmiPlatformDirectory(other)
        BY <2>2 DEF FmiPlatformDirectory, Macos, RuntimeJobs
      <3>2. /\ LibraryPath(one, "identifier") # LibraryPath(other, "identifier")
            /\ LibraryPath(one, "identifier") # WorkerPath(other)
            /\ WorkerPath(one) # LibraryPath(other, "identifier")
            /\ WorkerPath(one) # WorkerPath(other)
        BY <3>1 DEF LibraryPath, WorkerPath
      <3>3. QED
        BY <1>1, <3>2 DEF Agree
    <2>3. CASE {one, other} = Macos
      <3>1. index["darwin64"] = index["darwinarm64"]
        BY <1>2 DEF Consistent, Complete
      <3>2. LibraryMember("darwin64") = LibraryMember("darwinarm64")
        BY SuffixOf DEF LibraryMember
      <3>3. index[one] = index[other] /\ LibraryMember(one) = LibraryMember(other)
        BY <2>3, <3>1, <3>2 DEF Macos
      <3>4. /\ WorkerName(one) = WorkerName(other)
            /\ LibraryPath(one, "identifier") = LibraryPath(other, "identifier")
            /\ WorkerPath(one) = WorkerPath(other)
        BY <2>3, SuffixOf DEF Macos, WorkerName, LibraryPath, WorkerPath, FmiPlatformDirectory
      <3>5. QED
        BY <1>1, <3>3, <3>4 DEF Agree
    <2>4. QED
      BY <2>1, <2>2, <2>3
  <1>3. Consistent => SelectorsAgree
    BY <1>2 DEF SelectorsAgree, Entries
  <1>4. QED
    BY <1>3, SpecConsistent, PTL
=============================================================================
