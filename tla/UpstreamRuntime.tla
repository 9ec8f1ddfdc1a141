--------------------------- MODULE UpstreamRuntime ---------------------------
(***************************************************************************)
(* The patched copy of the installed `remodex` package that every launch   *)
(* path of cra/remodex_upstream.py runs: build_patched_runtime removes the *)
(* copy, copies the package, replaces one of its files (the device-state   *)
(* layer) and writes the metadata; ensure_patched_runtime rebuilds when    *)
(* the metadata does not match; run_upstream_remodex starts node on the    *)
(* result.  Processes that do so are started by launchd and by people      *)
(* (LaunchAgent composes them), and each step is one the operating system  *)
(* can interrupt.                                                          *)
(*                                                                         *)
(* A version stands for what the metadata compares: the package's          *)
(* directory and version, the patch's path and digest.  The package is     *)
(* reduced to the two files that matter: the entrypoint, and the file the  *)
(* patch replaces.                                                         *)
(***************************************************************************)
EXTENDS Integers

CONSTANTS
    Procs,       \* the processes that may work on the runtime directory
    MaxVersion,  \* bound: how far the installed package is upgraded
    MaxCrashes   \* bound: kills and logouts

ASSUME RuntimeAssumption ==
    /\ MaxVersion \in Nat \ {0}
    /\ MaxCrashes \in Nat

VARIABLES
    installed,   \* the version resolve_installed_remodex finds
    dir,         \* what package_dir is: nothing, a symbolic link, a directory
    file,        \* the two files in it
    metadata,    \* the version runtime-metadata.json records, or Missing
    pc,          \* where each process is
    want,        \* the version it read when it started
    todo,        \* the files its copytree has yet to copy
    loaded,      \* the device-state file the node process it started has loaded
    crashes

runtimeVars == <<installed, dir, file, metadata, pc, want, todo, loaded, crashes>>

Files == {"entry", "state"}
Missing == 0
Upstream == -1   \* the package's own device-state file, which the patch replaces
Empty == [f \in Files |-> Missing]

RuntimeInit ==
    /\ installed = 1
    /\ \/ dir = "absent" /\ file = Empty
       \/ dir = "link" /\ file = [entry |-> 1, state |-> Upstream]
    /\ metadata = Missing
    /\ pc = [p \in Procs |-> "idle"]
    /\ want = [p \in Procs |-> Missing]
    /\ todo = [p \in Procs |-> {}]
    /\ loaded = [p \in Procs |-> Missing]
    /\ crashes = 0

Goto(p, l) == pc' = [pc EXCEPT ![p] = l]

(* What an exception or a kill leaves of the process p. *)
Gone(p) ==
    /\ Goto(p, "idle")
    /\ todo' = [todo EXCEPT ![p] = {}]
    /\ loaded' = [loaded EXCEPT ![p] = Missing]

(* npm installs the next version of the package, or the patch is edited. *)
Upgrade ==
    /\ installed < MaxVersion
    /\ installed' = installed + 1
    /\ UNCHANGED <<dir, file, metadata, pc, want, todo, loaded, crashes>>

-----------------------------------------------------------------------------
MetadataMatches(v) == metadata = v /\ file["entry"] # Missing

(* A command resolves the installed package, and asks for the runtime; the *)
(* build command asks for nothing and builds.                              *)
Resolve(p, l) ==
    /\ pc[p] = "idle"
    /\ want' = [want EXCEPT ![p] = installed]
    /\ Goto(p, l)
    /\ UNCHANGED <<installed, dir, file, metadata, todo, loaded, crashes>>

Start(p) == Resolve(p, "check")
StartBuild(p) == Resolve(p, "remove")

(* Slip, for a mutant of Ensure: an entrypoint is enough, metadata or not. *)
Ensure_EntryOnly(p) ==
    /\ pc[p] = "check"
    /\ Goto(p, IF file["entry"] # Missing THEN "ready" ELSE "remove")
    /\ UNCHANGED <<installed, dir, file, metadata, want, todo, loaded, crashes>>

Ensure(p) ==
    /\ pc[p] = "check"
    /\ Goto(p, IF MetadataMatches(want[p]) THEN "ready" ELSE "remove")
    /\ UNCHANGED <<installed, dir, file, metadata, want, todo, loaded, crashes>>

(* The old copy: a link is unlinked, a directory removed file by file. *)
Remove(p) ==
    /\ pc[p] = "remove"
    /\ IF dir = "link" THEN dir' = "absent" /\ file' = Empty ELSE UNCHANGED <<dir, file>>
    /\ Goto(p, IF dir = "dir" THEN "rmtree" ELSE "mkdir")
    /\ UNCHANGED <<installed, metadata, want, todo, loaded, crashes>>

(* rmtree opens the directory and works on the one it opened: a process    *)
(* that had opened it too is lost when it is gone, whatever is made in its *)
(* place.                                                                  *)
RemoveTree(p) ==
    /\ pc[p] \in {"rmtree", "removing"}
    /\ dir = "dir"
    /\ \/ \E f \in Files : /\ file[f] # Missing
                           /\ file' = [file EXCEPT ![f] = Missing]
                           /\ Goto(p, "removing")
                           /\ UNCHANGED dir
       \/ /\ file = Empty
          /\ dir' = "absent"
          /\ pc' = [q \in Procs |-> IF q = p THEN "mkdir"
                                    ELSE IF pc[q] = "removing" THEN "lost" ELSE pc[q]]
          /\ UNCHANGED file
    /\ UNCHANGED <<installed, metadata, want, todo, loaded, crashes>>

(* Slip, for a mutant of MakeTree: the metadata is written before the copy. *)
MakeTree_Publishes(p) ==
    /\ pc[p] = "mkdir"
    /\ dir = "absent"
    /\ dir' = "dir"
    /\ metadata' = want[p]
    /\ todo' = [todo EXCEPT ![p] = Files]
    /\ Goto(p, "copy")
    /\ UNCHANGED <<installed, file, want, loaded, crashes>>

(* copytree makes the directory itself, and copies in an order of its own. *)
MakeTree(p) ==
    /\ pc[p] = "mkdir"
    /\ dir = "absent"
    /\ dir' = "dir"
    /\ todo' = [todo EXCEPT ![p] = Files]
    /\ Goto(p, "copy")
    /\ UNCHANGED <<installed, file, metadata, want, loaded, crashes>>

Copy(p) ==
    /\ pc[p] = "copy"
    /\ dir = "dir"
    /\ \E f \in todo[p] :
         /\ file' = [file EXCEPT ![f] = IF f = "entry" THEN installed ELSE Upstream]
         /\ todo' = [todo EXCEPT ![p] = @ \ {f}]
         /\ Goto(p, IF todo[p] = {f} THEN "patch" ELSE "copy")
    /\ UNCHANGED <<installed, dir, metadata, want, loaded, crashes>>

Patch(p) ==
    /\ pc[p] = "patch"
    /\ dir = "dir"
    /\ file' = [file EXCEPT !["state"] = want[p]]
    /\ Goto(p, "publish")
    /\ UNCHANGED <<installed, dir, metadata, want, todo, loaded, crashes>>

Publish(p) ==
    /\ pc[p] = "publish"
    /\ metadata' = want[p]
    /\ Goto(p, "ready")
    /\ UNCHANGED <<installed, dir, file, want, todo, loaded, crashes>>

(* Another process made or removed the directory this one works on, or     *)
(* files in it: the FileExistsError, FileNotFoundError or "not empty" ends *)
(* the command.                                                            *)
Collide(p) ==
    /\ \/ pc[p] = "mkdir" /\ dir # "absent"
       \/ pc[p] \in {"rmtree", "copy", "patch"} /\ dir # "dir"
       \/ pc[p] = "lost"
       \/ /\ pc[p] = "removing"
          /\ \E q \in Procs \ {p} : pc[q] \in {"removing", "copy", "patch", "publish"}
    /\ Gone(p)
    /\ UNCHANGED <<installed, dir, file, metadata, want, crashes>>

-----------------------------------------------------------------------------
(* run_upstream_remodex: the node process loads the two files.  It ends at *)
(* once when one is not there, and is never started when `codex login      *)
(* status` finds nobody logged in.                                         *)
Launch(p) ==
    /\ pc[p] = "ready"
    /\ \/ /\ \A f \in Files : file[f] # Missing
          /\ loaded' = [loaded EXCEPT ![p] = file["state"]]
          /\ Goto(p, "running")
          /\ UNCHANGED todo
       \/ Gone(p)
    /\ UNCHANGED <<installed, dir, file, metadata, want, crashes>>

(* remodex-upstream-build stops at the built runtime; a node process ends. *)
Finish(p) ==
    /\ pc[p] \in {"ready", "running"}
    /\ Gone(p)
    /\ UNCHANGED <<installed, dir, file, metadata, want, crashes>>

(* The process is killed. *)
Crash(p) ==
    /\ pc[p] # "idle"
    /\ crashes < MaxCrashes
    /\ crashes' = crashes + 1
    /\ Gone(p)
    /\ UNCHANGED <<installed, dir, file, metadata, want>>

(* The steps of one process between its start and its node process. *)
Build(p) ==
    \/ Ensure(p) \/ Remove(p) \/ RemoveTree(p) \/ MakeTree(p) \/ Copy(p)
    \/ Patch(p) \/ Publish(p) \/ Collide(p)

-----------------------------------------------------------------------------
RuntimeTypeOK ==
    /\ installed \in 1 .. MaxVersion
    /\ dir \in {"absent", "link", "dir"}
    /\ file \in [Files -> Upstream .. MaxVersion]
    /\ metadata \in 0 .. MaxVersion
    /\ pc \in [Procs -> {"idle", "check", "remove", "rmtree", "removing", "lost", "mkdir",
                         "copy", "patch", "publish", "ready", "running"}]
    /\ want \in [Procs -> 0 .. MaxVersion]
    /\ todo \in [Procs -> SUBSET Files]
    /\ loaded \in [Procs -> Upstream .. MaxVersion]
    /\ crashes \in 0 .. MaxCrashes
=============================================================================
