------------------------------- MODULE Update -------------------------------
(***************************************************************************)
(* The updater (platform/update.c) as the processes of one installation    *)
(* run it: the check against a release that is published file by file, the *)
(* record in the registry that every process reads and writes whole, the   *)
(* download beside the executable, the two renames at exit, and what the   *)
(* next start cleans up.                                                   *)
(*                                                                         *)
(* A document, a signature and an executable are the number of the release *)
(* they belong to.  When a check is due (apr_update_due) is left open but  *)
(* for the opt-out: a user may ask at any time.  The four values of the    *)
(* record are written as one.  Windows refuses to replace or to delete the *)
(* image of a running process, and renames it.                             *)
(***************************************************************************)
EXTENDS Integers

CONSTANTS
    Procs,      \* processes of the one executable
    Stagers,    \* those whose user accepts an update
    MaxVersion, \* bound: releases
    Broken,     \* builds that do not come up: they end before main
    Refusing    \* builds that refuse this Windows: main ends after apr_update_startup

ASSUME UpdateAssumption ==
    /\ Stagers \subseteq Procs
    /\ MaxVersion \in Nat \ {0}
    /\ Broken \subseteq 2 .. MaxVersion /\ Refusing \subseteq 2 .. MaxVersion

Versions == 1 .. MaxVersion
None     == 0           \* no file, an empty string
Torn     == -1          \* a file of which only a part has been written
Files    == {Torn, None} \cup Versions
Assets   == {"json", "sig", "exe"}

VARIABLES
    release, up,    \* the latest release, and which of its files are published
    reg,            \* the values under HKCU\Software\apprecorder\Update
    disk,           \* apprecorder.exe, its .new and its .old
    runs, ver,      \* which file p is running from, and which version it is
    ui,             \* where the thread of the front end is
    offers,         \* available releases posted to it, not yet answered
    take, want,     \* release being staged; update_staged and update_version
    overtaken,      \* history: whose staged file another process has begun to write over
    chk, got, st    \* the check thread: where it is, its body and its AprUpdateState

server == <<release, up>>
main   == <<runs, ver, ui, offers, take, want, overtaken>>
check  == <<chk, got, st>>
vars   == <<server, reg, disk, main, check>>

NoState == [enabled |-> TRUE, etag |-> None, pending |-> None]

\* A machine on which the first release runs, with nothing in the registry.
Init ==
    /\ release = 1 /\ up = Assets
    /\ reg = NoState
    /\ disk = [image |-> 1, new |-> None, old |-> None]
    /\ runs = [p \in Procs |-> "none"] /\ ver = [p \in Procs |-> None]
    /\ ui = [p \in Procs |-> "off"] /\ offers = [p \in Procs |-> {}]
    /\ take = [p \in Procs |-> None] /\ want = [p \in Procs |-> None]
    /\ overtaken = {}
    /\ chk = [p \in Procs |-> "idle"] /\ got = [p \in Procs |-> None]
    /\ st = [p \in Procs |-> NoState]

-----------------------------------------------------------------------------
(* The server: three files are three uploads.                              *)

Publish ==
    /\ release < MaxVersion /\ release' = release + 1 /\ up' = {}
    /\ UNCHANGED <<reg, disk, main, check>>

Upload ==
    /\ \E a \in Assets \ up : up' = up \cup {a}
    /\ UNCHANGED <<release, reg, disk, main, check>>

-----------------------------------------------------------------------------
(* The process.                                                            *)

At(p, s) == ui[p] = s
Goes(p, from, to) == At(p, from) /\ ui' = [ui EXCEPT ![p] = to]

\* The process ends, and its check thread with it.
Ends(p) ==
    /\ ui' = [ui EXCEPT ![p] = "off"] /\ ver' = [ver EXCEPT ![p] = None]
    /\ offers' = [offers EXCEPT ![p] = {}]
    /\ take' = [take EXCEPT ![p] = None] /\ want' = [want EXCEPT ![p] = None]
    /\ overtaken' = overtaken \ {p}
    /\ chk' = [chk EXCEPT ![p] = "idle"] /\ got' = [got EXCEPT ![p] = None]
    /\ st' = [st EXCEPT ![p] = NoState]
Leaves(p) == Ends(p) /\ runs' = [runs EXCEPT ![p] = "none"]

\* A file a process runs from follows its renames.
Moved(from, to) == [p \in Procs |-> IF runs[p] = from THEN to ELSE runs[p]]
InUse(file) == \E p \in Procs : runs[p] = file
Downloading == \E p \in Procs : At(p, "download")   \* .new is open, unshared

\* Mutant of Launch: what makes a build fail comes after its start-up.
Launch_mutant(p) ==
    /\ disk.image \in Versions /\ Goes(p, "off", "clean")
    /\ runs' = [runs EXCEPT ![p] = "image"] /\ ver' = [ver EXCEPT ![p] = disk.image]
    /\ UNCHANGED <<server, reg, disk, offers, take, want, overtaken, check>>

Launch(p) ==
    /\ disk.image \in Versions \ Broken /\ Goes(p, "off", "clean")
    /\ runs' = [runs EXCEPT ![p] = "image"] /\ ver' = [ver EXCEPT ![p] = disk.image]
    /\ UNCHANGED <<server, reg, disk, offers, take, want, overtaken, check>>

\* apr_update_startup: a staged file is stale, whoever left it there.
Clean(p) ==
    /\ Goes(p, "clean", "retire")
    /\ \/ ~Downloading /\ disk' = [disk EXCEPT !.new = None]
       \/ UNCHANGED disk        \* DeleteFile may fail
    /\ UNCHANGED <<server, reg, runs, ver, offers, take, want, overtaken, check>>

\* The version that was swapped in is the one that runs: its .old may go.
Retire(p) ==
    /\ reg.pending = ver[p] /\ Goes(p, "retire", "clear")
    /\ \/ ~InUse("old") /\ disk' = [disk EXCEPT !.old = None]
       \/ UNCHANGED disk
    /\ st' = [st EXCEPT ![p] = reg]
    /\ UNCHANGED <<server, reg, runs, ver, offers, take, want, overtaken, chk, got>>

\* Nothing is pending, or the .old is kept.
Keep(p) ==
    /\ reg.pending # ver[p] /\ Goes(p, "retire", "floor")
    /\ UNCHANGED <<server, reg, disk, runs, ver, offers, take, want, overtaken, check>>

Clear(p) ==
    /\ Goes(p, "clear", "floor")
    /\ reg' = [st[p] EXCEPT !.pending = None] /\ st' = [st EXCEPT ![p] = NoState]
    /\ UNCHANGED <<server, disk, runs, ver, offers, take, want, overtaken, chk, got>>

\* main asks for the Windows it needs only now.
MeetsFloor(p) ==
    /\ ver[p] \notin Refusing /\ Goes(p, "floor", "idle")
    /\ UNCHANGED <<server, reg, disk, runs, ver, offers, take, want, overtaken, check>>

FloorRefused(p) ==
    /\ At(p, "floor") /\ ver[p] \in Refusing /\ Leaves(p)
    /\ UNCHANGED <<server, reg, disk>>

Kill(p) ==
    /\ ~At(p, "off") /\ Leaves(p)
    /\ UNCHANGED <<server, reg, disk>>

\* `update --disable` and `--enable`, in a process of their own.
Toggle ==
    /\ reg' = [reg EXCEPT !.enabled = ~reg.enabled]
    /\ UNCHANGED <<server, disk, main, check>>

\* Recovery by hand, "one rename away", when nothing runs.
Restore ==
    /\ \A p \in Procs : At(p, "off")
    /\ disk.old # None /\ disk' = [disk EXCEPT !.image = disk.old, !.old = None]
    /\ UNCHANGED <<server, reg, main, check>>

-----------------------------------------------------------------------------
(* The check, on a thread of its own.                                      *)

\* The thread is not there; the last one may have answered "up to date".
Over == {"idle", "current"}
CheckIs(p, from, to) == chk[p] = from /\ chk' = [chk EXCEPT ![p] = to]
Forget(p) == st' = [st EXCEPT ![p] = NoState] /\ got' = [got EXCEPT ![p] = None]

\* apr_update_state_save of the record the check loaded when it began.
Save(s) == reg' = s

\* The startup check, the timer, a stopped recording, the menu, the command.
BeginCheck(p) ==
    /\ At(p, "idle") /\ reg.enabled
    /\ chk[p] \in Over /\ CheckIs(p, chk[p], "json") /\ st' = [st EXCEPT ![p] = reg]
    /\ UNCHANGED <<server, reg, disk, main, got>>

\* The server was not reached: nothing is saved.
Offline(p) ==
    /\ CheckIs(p, "json", "idle") /\ Forget(p)
    /\ UNCHANGED <<server, reg, disk, main>>

\* 304: the document is the one whose ETag was remembered, "up to date".
NotModified(p) ==
    /\ "json" \in up /\ st[p].etag = release
    /\ CheckIs(p, "json", "current") /\ Save(st[p]) /\ Forget(p)
    /\ UNCHANGED <<server, disk, main>>

\* 404, or an empty answer.
NoDocument(p) ==
    /\ "json" \notin up
    /\ CheckIs(p, "json", "idle") /\ Save(st[p]) /\ Forget(p)
    /\ UNCHANGED <<server, disk, main>>

GetDocument(p) ==
    /\ "json" \in up /\ st[p].etag # release
    /\ CheckIs(p, "json", "sig") /\ got' = [got EXCEPT ![p] = release]
    /\ UNCHANGED <<server, reg, disk, main, st>>

\* Mutant of Unsigned: the ETag of the document is saved with the time.
Unsigned_mutant(p) ==
    /\ CheckIs(p, "sig", "idle") /\ Save([st[p] EXCEPT !.etag = got[p]]) /\ Forget(p)
    /\ UNCHANGED <<server, disk, main>>

\* No usable signature yet, or one that does not verify: a release half
\* published, or another one published between the two requests.
Unsigned(p) ==
    /\ CheckIs(p, "sig", "idle") /\ Save(st[p]) /\ Forget(p)
    /\ UNCHANGED <<server, disk, main>>

\* apr_version_is_newer_than_current.
Newer(p) == {v \in {got[p]} : v > ver[p]}

\* apr_update_verify_manifest of the bytes as fetched, before it parses them.
Genuine(p) == "sig" \in up /\ release = got[p]

\* The signature is the document's: only now is its ETag remembered, and a
\* newer version is posted to the front end.
Verified(p) ==
    /\ Genuine(p)
    /\ CheckIs(p, "sig", IF Newer(p) = {} THEN "current" ELSE "idle")
    /\ Save([st[p] EXCEPT !.etag = got[p]]) /\ Forget(p)
    /\ offers' = [offers EXCEPT ![p] = @ \cup Newer(p)]
    /\ UNCHANGED <<server, disk, runs, ver, ui, take, want, overtaken>>

-----------------------------------------------------------------------------
(* Staging, on the thread of the front end.                                *)

\* "Later", or a recording is running: the offer is dropped.
Postpone(p) ==
    /\ At(p, "idle")
    /\ \E v \in offers[p] : offers' = [offers EXCEPT ![p] = @ \ {v}]
    /\ UNCHANGED <<server, reg, disk, runs, ver, ui, take, want, overtaken, check>>

Accept(p) ==
    /\ p \in Stagers /\ Goes(p, "idle", "download") /\ ~Downloading
    /\ \E v \in offers[p] :
        take' = [take EXCEPT ![p] = v] /\ offers' = [offers EXCEPT ![p] = @ \ {v}]
    /\ disk' = [disk EXCEPT !.new = Torn]       \* CREATE_ALWAYS
    /\ overtaken' = overtaken \cup {q \in Procs \ {p} : want[q] # None}
    /\ UNCHANGED <<server, reg, runs, ver, want, check>>

\* What is served under the asset's name is the latest release's.
Fetch(p) ==
    /\ "exe" \in up /\ Goes(p, "download", "hash")
    /\ disk' = [disk EXCEPT !.new = release]
    /\ UNCHANGED <<server, reg, runs, ver, offers, take, want, overtaken, check>>

\* The request or a write failed: what was written is deleted.
FetchFails(p) ==
    /\ Goes(p, "download", "idle")
    /\ disk' = [disk EXCEPT !.new = None] /\ take' = [take EXCEPT ![p] = None]
    /\ UNCHANGED <<server, reg, runs, ver, offers, want, overtaken, check>>

\* Mutant of Matches: any file that arrived will do.
Matches_mutant(p) == disk.new # None

\* The hash of the file is the one the manifest signed.
Matches(p) == disk.new = take[p]

VerifyPayload(p) ==
    /\ Goes(p, "hash", "idle") /\ take' = [take EXCEPT ![p] = None]
    /\ IF Matches(p)
       THEN /\ want' = [want EXCEPT ![p] = take[p]] /\ overtaken' = overtaken \ {p}
            /\ UNCHANGED disk
       ELSE /\ disk' = IF Downloading THEN disk ELSE [disk EXCEPT !.new = None]
            /\ UNCHANGED <<want, overtaken>>
    /\ UNCHANGED <<server, reg, runs, ver, offers, check>>

-----------------------------------------------------------------------------
(* The exit, and the swap.                                                 *)

Exit(p) ==
    /\ At(p, "idle") /\ want[p] = None /\ Leaves(p)
    /\ UNCHANGED <<server, reg, disk>>

ExitStaged(p) ==
    /\ want[p] # None /\ Goes(p, "idle", "swap")
    /\ UNCHANGED <<server, reg, disk, runs, ver, offers, take, want, overtaken, check>>

\* apprecorder.exe to .old, replacing the .old of a swap before.
MoveAside(p) ==
    /\ disk.new # None /\ disk.image # None /\ ~InUse("old")
    /\ Goes(p, "swap", "place")
    /\ disk' = [disk EXCEPT !.image = None, !.old = disk.image]
    /\ runs' = Moved("image", "old")
    /\ UNCHANGED <<server, reg, ver, offers, take, want, overtaken, check>>

\* Nothing is staged any more, or the rename failed.
NoSwap(p) ==
    /\ At(p, "swap") /\ Leaves(p)
    /\ UNCHANGED <<server, reg, disk>>

Place(p) ==
    /\ disk.new # None /\ disk.image = None /\ ~Downloading
    /\ Goes(p, "place", "record")
    /\ disk' = [disk EXCEPT !.image = disk.new, !.new = None]
    /\ UNCHANGED <<server, reg, runs, ver, offers, take, want, overtaken, check>>

NotPlaced(p) ==
    /\ Goes(p, "place", "undo")
    /\ UNCHANGED <<server, reg, disk, runs, ver, offers, take, want, overtaken, check>>

\* "Both renames or neither."
Undo(p) ==
    /\ At(p, "undo") /\ disk.old # None /\ ~InUse("image") /\ Ends(p)
    /\ disk' = [disk EXCEPT !.image = disk.old, !.old = None]
    /\ runs' = [Moved("old", "image") EXCEPT ![p] = "none"]
    /\ UNCHANGED <<server, reg>>

NotUndone(p) ==
    /\ At(p, "undo") /\ Leaves(p)
    /\ UNCHANGED <<server, reg, disk>>

\* The marker the next start decides by.
Record(p) ==
    /\ At(p, "record") /\ Leaves(p)
    /\ reg' = [reg EXCEPT !.pending = want[p]]
    /\ UNCHANGED <<server, disk>>

-----------------------------------------------------------------------------

Starts(p)   == Launch(p) \/ Clean(p) \/ Retire(p) \/ Keep(p) \/ Clear(p)
                 \/ MeetsFloor(p) \/ FloorRefused(p)
Checks(p)   == BeginCheck(p) \/ Offline(p) \/ NotModified(p) \/ NoDocument(p)
                 \/ GetDocument(p) \/ Unsigned(p) \/ Verified(p)
Stages(p)   == Postpone(p) \/ Accept(p) \/ Fetch(p) \/ FetchFails(p) \/ VerifyPayload(p)
Swaps(p)    == Exit(p) \/ ExitStaged(p) \/ MoveAside(p) \/ NoSwap(p) \/ Place(p)
                 \/ NotPlaced(p) \/ Undo(p) \/ NotUndone(p) \/ Record(p)

Next ==
    \/ Publish \/ Upload \/ Toggle \/ Restore
    \/ \E p \in Procs : Starts(p) \/ Checks(p) \/ Stages(p) \/ Swaps(p) \/ Kill(p)

Spec == Init /\ [][Next]_vars

-----------------------------------------------------------------------------
(* Properties.                                                             *)

State == [enabled : BOOLEAN, etag : {None} \cup Versions, pending : {None} \cup Versions]

TypeOK ==
    /\ release \in Versions /\ up \subseteq Assets
    /\ reg \in State /\ st \in [Procs -> State]
    /\ disk \in [image : Files, new : Files, old : Files]
    /\ runs \in [Procs -> {"none", "image", "old"}]
    /\ ver \in [Procs -> {None} \cup Versions]
    /\ ui \in [Procs -> {"off", "clean", "retire", "clear", "floor", "idle", "download",
                         "hash", "swap", "place", "undo", "record"}]
    /\ offers \in [Procs -> SUBSET Versions]
    /\ \A p \in Procs : \A v \in offers[p] : v > ver[p]
    /\ take \in [Procs -> {None} \cup Versions] /\ want \in [Procs -> {None} \cup Versions]
    /\ chk \in [Procs -> Over \cup {"json", "sig"}] /\ got \in [Procs -> {None} \cup Versions]
    /\ overtaken \subseteq Procs

\* "NEVER discard the previous version until the new one has proven it starts"
\* (update.h, rule 2): at every instant, also after a kill between two renames,
\* apprecorder.exe or its .old is a build that comes up.
AlwaysOneThatStarts == \E v \in Versions \ Broken : v \in {disk.image, disk.old}

\* The same of a build that is any use: that also runs on this Windows.
AlwaysOneThatServes ==
    \E v \in Versions \ (Broken \cup Refusing) : v \in {disk.image, disk.old}

\* "Verification happens before anything is even renamed into place"
\* (update.h): what a swap has put in place, steps and processes after it was
\* hashed, is the very release its user accepted, unless another process of the
\* installation has begun to stage since, which nothing in the code prevents.
InPlaceAsPromised ==
    \A p \in Procs : At(p, "record") /\ p \notin overtaken => disk.image = want[p]

\* The same whoever stages beside whom: more than the code does.
AlwaysAsPromised == \A p \in Procs : At(p, "record") => disk.image = want[p]

\* "THE ETag IS ONLY REMEMBERED AFTER A GOOD SIGNATURE" (update.c): a release
\* that is still half published is not silenced for the checks that follow.
NothingSilenced == reg.etag = release => "sig" \in up

\* "The next check re-downloads whatever is current" (update.c): who is told
\* the program is up to date runs the latest release, has it on offer or has
\* it staged.
UpToDateIsTrue ==
    [][\A p \in Procs : chk[p] \notin Over /\ chk'[p] = "current" =>
            ver[p] >= release \/ release \in offers[p] \cup {take[p], want[p]}]_vars

\* "The check is opt-out and the setting persists" (update.h, rule 3): only
\* the user's own command changes it.
OptOutPersists == [][reg'.enabled # reg.enabled => Toggle]_vars
=============================================================================
