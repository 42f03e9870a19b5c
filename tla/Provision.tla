------------------------------ MODULE Provision ------------------------------
(* How rpc-server and llama-server come into the data directory (rpc.rs,     *)
(* build.rs, on Linux): built from source on the host or in a distrobox      *)
(* container, or downloaded and unpacked in place.  One call at a time; every*)
(* step may fail or be cut off.  init and clean (cli.rs) empty the           *)
(* configuration and remove files between calls.  The functions are the      *)
(* interface of two modules nothing calls at this commit.                    *)
EXTENDS Naturals, Sequences

CONSTANTS
  Lib,      \* shared libraries, by name: both servers need them all
  Release,  \* tags of llama.cpp releases
  Archive,  \* the entries of a release's archive, in their order
  Links,    \* the libraries that are symlinks in an archive
  LibOrder, \* the libraries in the order in which a build's are copied
  Torn,     \* a file whose writing was cut short
  None

ASSUME EntryAssumption == Lib \cap {"rpc", "llama"} = {}
ASSUME ArchiveAssumption ==
  /\ Archive \in Seq(Lib \cup {"rpc", "llama"})
  /\ \A e \in Lib \cup {"rpc"} : \E i \in 1..Len(Archive) : Archive[i] = e
ASSUME LinksAssumption == Links \subseteq Lib
ASSUME LibOrderAssumption ==
  LibOrder \in Seq(Lib) /\ \A l \in Lib : \E i \in 1..Len(LibOrder) : LibOrder[i] = l
ASSUME ReleaseAssumption ==
  /\ {None, Torn} \cap (Release \cup {"source", "rpc", "llama", "ok", "err"}) = {}
  /\ None # Torn /\ "source" \notin Release

VARIABLES
  host,     \* an ordinary host, an atomic one (is_ostree), or an atomic one under sudo
  data,     \* rpc-server and lib/ in the data directory, by where they are from
  llama,    \* something is there by the name of llama-server
  src,      \* the source tree: not there, its clone was cut short, or whole
  version,  \* rpc_version of the configuration
  pc, call, \* the next step, and the last call
  at, got,  \* the file or entry to be copied or unpacked, and where it is from
  lacks,    \* the server is not in the archive
  result,   \* what the last call returned
  calm,     \* from now on only builds fail, and has_vulkan finds a directory to read
  written   \* history: rpc-server and the libraries were last written as a whole, and
            \* this was recorded as well, or some of them were written since

files == <<data, llama, src, version>>
progress == <<at, got, lacks>>
env == <<host, calm>>
vars == <<files, progress, env, pc, call, result, written>>
----------------------------------------------------------------------------
Source == "source"
Origin == Release \cup {Source}
Entry == Lib \cup {"rpc"}
Call == {"rpc", "llama"}

\* what a build copies
Copied == <<"rpc", "llama">> \o LibOrder

Steps == {"idle", "check", "remove", "tools", "clone", "checkout", "compile", "copy", "box",
          "boxcopy", "record", "built", "failed", "fetch", "unpack"}

TypeOK ==
  /\ host \in {"plain", "atomic", "sudo"}
  /\ data \in [Entry -> Origin \cup {None, Torn}]
  /\ llama \in BOOLEAN
  /\ src \in {"none", "partial", "whole"}
  /\ version \in Origin \cup {None}
  /\ pc \in Steps /\ call \in Call \cup {None}
  /\ at \in Nat /\ got \in Origin \cup {None} /\ lacks \in BOOLEAN
  /\ pc = "copy" => at \in 1..Len(Copied) + 1 /\ got = Source
  /\ pc = "unpack" => at \in 1..Len(Archive) + 1 /\ got \in Release
  /\ pc = "record" => got # None
  /\ result \in {"ok", "err", None}
  /\ calm \in BOOLEAN /\ written \in {"partial", "whole", "recorded"}

Init ==
  /\ host \in {"plain", "atomic", "sudo"}
  /\ data = [e \in Entry |-> None] /\ llama = FALSE
  /\ src = "none" /\ version = None
  /\ pc = "idle" /\ call = None
  /\ at = 0 /\ got = None /\ lacks = FALSE
  /\ result = None
  /\ calm = FALSE /\ written = "recorded"
----------------------------------------------------------------------------
Goto(step) == pc' = step /\ UNCHANGED <<call, result>>
Return(r) == pc' = "idle" /\ result' = r /\ UNCHANGED call

\* what ldd says of a server: whether a library is not found, by its name.  One that is
\* not in lib/ may be found on the system or in the build tree, and nothing is said if ldd
\* cannot be run or the server was cut short
MissingLibs == \E l \in Lib : data[l] = None
SaysMissing == {FALSE, MissingLibs}

There(e) == IF e = "rpc" THEN data["rpc"] # None ELSE llama
Present(e, missing) == There(e) /\ ~missing

Begin(c) ==
  /\ pc = "idle"
  /\ pc' = "check" /\ call' = c /\ result' = None
  /\ at' = 0 /\ got' = None /\ lacks' = FALSE
  /\ UNCHANGED <<files, env, written>>

\* with no library in it lib/ may itself be missing, which is looked at for rpc-server only
Check ==
  /\ pc = "check"
  /\ \E missing \in SaysMissing :
       \/ Present(call, missing) /\ Return("ok")
       \/ ~Present(call, missing) /\ Goto(IF call = "rpc" THEN "remove" ELSE "tools")
       \/ call = "rpc" /\ (\A l \in Lib : data[l] = None) /\ Goto("remove")
  /\ UNCHANGED <<files, progress, env, written>>

Without(gone) == [e \in Entry |-> IF e \in gone THEN None ELSE data[e]]

\* rpc-server and lib/ are removed before there is anything to replace them; that a
\* removal fails is ignored, that the directories cannot be made is not
RemoveOld ==
  /\ pc = "remove"
  /\ \E gone \in SUBSET Entry : (calm => gone = Entry) /\ data' = Without(gone)
  /\ \/ Goto("tools")
     \/ ~calm /\ Return("err")
  /\ UNCHANGED <<llama, src, version, progress, env, written>>
----------------------------------------------------------------------------
(* build_from_source on an ordinary host.                                   *)

\* where there are no nvidia-smi, no vulkaninfo and no /sys/class/drm, has_vulkan panics:
\* this is no failure of the build, it ends the call
VulkanPanics == ~calm /\ Return(None)

\* the tools are there or can be installed.  An atomic host builds in a container
InstallTools ==
  /\ pc = "tools"
  /\ \/ host # "plain" /\ Goto("box")
     \/ host = "plain" /\ (Goto("clone") \/ Goto("failed") \/ VulkanPanics)
  /\ UNCHANGED <<files, progress, env, written>>

\* a tree that is there is taken for a clone.  A failed clone is removed by git
Clone ==
  /\ pc = "clone"
  /\ \/ src # "none" /\ Goto("checkout") /\ UNCHANGED src
     \/ src = "none" /\ Goto("checkout") /\ src' = "whole"
     \/ src = "none" /\ Goto("failed") /\ UNCHANGED src
     \/ src = "none" /\ ~calm /\ Return(None) /\ src' = "partial"
  /\ UNCHANGED <<data, llama, version, progress, env, written>>

\* of a partial clone nothing is ever checked out, of a shallow one not always
Checkout ==
  /\ pc = "checkout"
  /\ (src = "whole" /\ Goto("compile")) \/ Goto("failed")
  /\ UNCHANGED <<files, progress, env, written>>

Compile ==
  /\ pc = "compile"
  /\ \/ Goto("failed") /\ UNCHANGED progress
     \/ Goto("copy") /\ at' = 1 /\ got' = Source /\ UNCHANGED lacks
  /\ UNCHANGED <<files, env, written>>

\* a file is written as a whole, or cut short, or cannot be opened
Put(file, content, next, failed) ==
  \/ /\ at' = at + 1 /\ Goto(next)
     /\ IF file = "llama" THEN llama' = TRUE /\ UNCHANGED data
        ELSE data' = [data EXCEPT ![file] = content] /\ UNCHANGED llama
  \/ /\ ~calm /\ UNCHANGED at
     /\ IF file = "llama" THEN llama' \in {llama, TRUE} /\ UNCHANGED data
        ELSE data' \in {data, [data EXCEPT ![file] = Torn]} /\ UNCHANGED llama
     /\ failed \/ Return(None)

Mark == written' = IF data' = data THEN written ELSE "partial"

\* llama-server is copied if it was built
Copy ==
  /\ pc = "copy"
  /\ \/ at <= Len(Copied) /\ Put(Copied[at], Source, "copy", Goto("failed"))
     \/ at <= Len(Copied) /\ Copied[at] = "llama"
        /\ at' = at + 1 /\ Goto("copy") /\ UNCHANGED <<data, llama>>
     \/ at > Len(Copied) /\ Goto("record") /\ UNCHANGED <<data, llama, at>>
  /\ IF at > Len(Copied) THEN written' = "whole" ELSE Mark
  /\ UNCHANGED <<src, version, got, lacks, env>>

\* the configuration may not be there to be written, or be cut short
Record ==
  /\ pc = "record"
  /\ \/ version' = got /\ written' = IF written = "partial" THEN "partial" ELSE "recorded"
     \/ UNCHANGED <<version, written>>
     \/ ~calm /\ version' = None /\ UNCHANGED written
  /\ IF got = Source THEN Goto("built") ELSE Return("ok")
  /\ UNCHANGED <<data, llama, src, progress, env>>
----------------------------------------------------------------------------
(* build_in_distrobox.                                                      *)

\* files are put over what is there: any part of them, some cut short
SomeCopied ==
  /\ \E copied \in SUBSET Entry, cut \in SUBSET Entry :
       data' = [e \in Entry |-> IF e \in cut THEN Torn
                                ELSE IF e \in copied THEN Source ELSE data[e]]
  /\ llama' \in {llama, TRUE}

\* one shell script clones, builds and copies, under sudo to the user's data directory;
\* its exit status is that of its last command, which ignores what fails
BoxBuild ==
  /\ pc = "box"
  /\ \/ (Goto("failed") \/ VulkanPanics) /\ UNCHANGED <<data, llama>>
     \/ /\ Goto("boxcopy") \/ (~calm /\ Return(None))
        /\ IF host = "sudo" THEN UNCHANGED <<data, llama>> ELSE SomeCopied
  /\ Mark
  /\ UNCHANGED <<src, version, progress, env>>

\* under sudo what this or an earlier container left in the user's directory is copied to
\* the data directory; else rpc-server is copied onto itself, which leaves an empty file
BoxCopy ==
  /\ pc = "boxcopy"
  /\ \/ /\ Goto("failed") /\ UNCHANGED <<data, llama, got, written>>
        /\ host = "atomic" => data["rpc"] = None
     \/ /\ host = "sudo" /\ SomeCopied /\ written' = "partial"
        /\ \/ data'["rpc"] \in {Source, Torn} /\ Goto("record") /\ got' = Source
           \/ ~calm /\ (Goto("failed") \/ Return(None)) /\ UNCHANGED got
     \/ /\ host = "atomic" /\ data["rpc"] # None
        /\ data' = [data EXCEPT !["rpc"] = Torn] /\ written' = "partial" /\ UNCHANGED llama
        /\ Goto("record") /\ got' = Source
  /\ UNCHANGED <<src, version, at, lacks, env>>
----------------------------------------------------------------------------
(* What is done with the outcome of a build, and the download.              *)

\* a server that was built is taken, llama-server if it is there or in the tree
Built ==
  /\ pc = "built"
  /\ \/ call = "rpc" /\ Return("ok") /\ UNCHANGED llama
     \/ /\ call = "llama"
        /\ \E missing \in SaysMissing :
             \/ Present(call, missing) /\ Return("ok") /\ UNCHANGED llama
             \/ ~Present(call, missing) /\ Goto("fetch") /\ UNCHANGED llama
             \/ ~Present(call, missing) /\ host # "sudo" /\ Return("ok") /\ llama' = TRUE
             \/ ~Present(call, missing) /\ ~calm /\ Return("err") /\ llama' \in {llama, TRUE}
  /\ UNCHANGED <<data, src, version, progress, env, written>>

\* mutant: the error of the build is the error of the call
GivesUp == pc = "failed" /\ Return("err") /\ UNCHANGED <<files, progress, env, written>>

BuildFailed ==
  /\ pc = "failed"
  /\ \/ call = "llama" /\ Goto("fetch")
     \/ call = "rpc" /\ \E missing \in SaysMissing :
          IF Present(call, missing) THEN Return("ok") ELSE Goto("fetch")
  /\ UNCHANGED <<files, progress, env, written>>

\* mutant: the entries are counted from zero
FetchFromZero ==
  /\ pc = "fetch"
  /\ Goto("unpack") /\ at' = 0 /\ got' \in Release /\ lacks' = FALSE
  /\ UNCHANGED <<files, env, written>>

\* any release may by now be the latest
Fetch ==
  /\ pc = "fetch"
  /\ \/ /\ Goto("unpack") /\ at' = 1 /\ got' \in Release
        /\ lacks' \in (IF calm THEN {FALSE} ELSE BOOLEAN)
     \/ ~calm /\ Return("err") /\ UNCHANGED progress
  /\ UNCHANGED <<files, env, written>>

\* mutant: a library that is there is kept
KeepsLibs(e) == (e \in Lib /\ data[e] = None) \/ (e = call /\ ~lacks)

\* the libraries are unpacked whichever server is wanted
Wanted(e) == e \in Lib \/ (e = call /\ ~lacks)

\* of a symlink only its file is unpacked, under a name of its own: an earlier link may
\* lead to it
Unpack ==
  /\ pc = "unpack" /\ at <= Len(Archive)
  /\ LET e == Archive[at] IN
     \/ /\ Wanted(e) /\ (e \in Links => data[e] # None)
        /\ Put(e, got, "unpack", Return("err"))
     \/ ~Wanted(e) /\ at' = at + 1 /\ Goto("unpack") /\ UNCHANGED <<data, llama>>
     \/ /\ Wanted(e) /\ e \in Links /\ UNCHANGED <<data, llama>>
        /\ \/ at' = at + 1 /\ Goto("unpack")
           \/ ~calm /\ UNCHANGED at /\ Return("err")
  /\ Mark
  /\ UNCHANGED <<src, version, got, lacks, env>>

\* when all files are unpacked the earlier links are removed and those of the archive
\* made; that either fails is only reported.  Was the server there?
Found ==
  /\ pc = "unpack" /\ at > Len(Archive)
  /\ \E gone, made \in SUBSET Links :
       /\ calm => made = Links
       /\ data' = [e \in Entry |-> IF e \in made THEN got ELSE Without(gone)[e]]
       /\ IF made = Links /\ ~lacks /\ call = "rpc" THEN written' = "whole" ELSE Mark
  /\ \/ lacks /\ Return("err")
     \/ ~lacks /\ call = "rpc" /\ Goto("record")
     \/ ~lacks /\ call = "llama" /\ Return("ok")
  /\ UNCHANGED <<llama, src, version, progress, env>>
----------------------------------------------------------------------------
\* the process ends between two steps; what it was doing is forgotten
Killed ==
  /\ pc # "idle" /\ ~calm /\ Return(None)
  /\ UNCHANGED <<files, progress, env, written>>

\* init saves a configuration without a version, and leaves the files; clean removes the
\* configuration, and then the files: all, some, or none where they are not under /root
Forget ==
  /\ pc = "idle" /\ version' = None
  /\ \E gone \in SUBSET Entry : data' = Without(gone)
  /\ llama' \in {llama, FALSE}
  /\ src' \in IF src = "none" THEN {"none"} ELSE {src, "partial", "none"}
  /\ UNCHANGED <<progress, env, pc, call, result, written>>

Calms ==
  /\ calm' = TRUE
  /\ UNCHANGED <<files, progress, host, pc, call, result, written>>

Step ==
  \/ Check \/ RemoveOld \/ InstallTools \/ Clone \/ Checkout \/ Compile \/ Copy \/ Record
  \/ BoxBuild \/ BoxCopy \/ Built \/ BuildFailed \/ Fetch \/ Unpack \/ Found

Next ==
  \/ \E c \in Call : Begin(c)
  \/ Step \/ Killed \/ Forget \/ Calms

Spec == Init /\ [][Next]_vars

\* a call that was made goes on
FairSpec == Spec /\ WF_vars(Step)
----------------------------------------------------------------------------
(* What ensure_rpc_server may take for installed (rpc.rs:107, 128) is a      *)
(* server that is whole, and every library in lib/ is its own, none of       *)
(* another release or cut short; that one is not there at all is for ldd to  *)
(* say.  If it was recorded as well, rpc_version names no other release.     *)
(* This is unless something was written since and the writing never          *)
(* completed; whatever failed on the way, a build after its copies began, a  *)
(* removal half done, another call's download, init or clean.                *)
AcceptsMatching ==
  written # "partial" /\ There("rpc") =>
    /\ data["rpc"] \in Origin
    /\ \A l \in Lib : data[l] \in {data["rpc"], None}
    /\ written = "recorded" => version \in {data["rpc"], None}

(* A call that has found nothing to take ends with a server, if from now on  *)
(* releases can be downloaded, links made and nothing is killed or panics,   *)
(* though every build may fail and whatever earlier calls left behind: a     *)
(* clone cut short, libraries without a server (rpc.rs:122, 347).  On an     *)
(* ordinary host rpc-server is then there with all its libraries; where it   *)
(* is built in a container only a file by its name is.                       *)
Refused == pc = IF call = "rpc" THEN "remove" ELSE "tools"
Delivered ==
  /\ result = "ok"
  /\ IF call = "llama" THEN llama
     ELSE IF host = "plain" THEN data["rpc"] \in Origin /\ \A l \in Lib : data[l] = data["rpc"]
     ELSE data["rpc"] # None
Recovers == calm /\ Refused ~> Delivered
----------------------------------------------------------------------------
(* The inductive invariant behind AcceptsMatching.                           *)

\* unless the last writing was not completed, all that is there is of one origin, and so
\* is the version if it was recorded
OfOrigin(o) ==
  /\ \A e \in Entry : data[e] \in {None, o}
  /\ written = "recorded" => version \in {None, o}
Settled == written # "partial" => \E o \in Origin : OfOrigin(o)

\* what was copied or unpacked so far is there, and of one origin; links are made later
SoFar ==
  /\ pc = "copy" => \A i \in 1..Len(Copied) : i < at /\ Copied[i] \in Entry => data[Copied[i]] = Source
  /\ pc = "unpack" => \A i \in 1..Len(Archive) :
       i < at /\ Archive[i] \in Entry \ Links /\ Wanted(Archive[i]) => data[Archive[i]] = got

\* what is to be recorded is there, but for links, or its writing was not completed
Recordable ==
  pc = "record" /\ written # "partial" => \A e \in Entry : data[e] \in {None, got}

WriteInv == Settled /\ SoFar /\ Recordable
=============================================================================
