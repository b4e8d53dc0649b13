---------------------------- MODULE UpdateProofs ----------------------------
(***************************************************************************)
(* For any number of processes, all of which may update, of releases, of   *)
(* builds that do not come up, and of kills: what is left on the disk      *)
(* always includes a build that comes up, and a half published release is  *)
(* never remembered.  The first rests on Windows: the file a process runs  *)
(* from is neither replaced nor deleted, and only a build that came up     *)
(* moves files, so it is itself the one that is left.  What a process has  *)
(* verified is what it puts in place, unless another one has begun to      *)
(* download in between.                                                    *)
(***************************************************************************)
EXTENDS Update, TLAPS

\* Nothing is posted to, or checked for, a process that is not there.
Offstage == \A p \in Procs : At(p, "off") => offers[p] = {} /\ chk[p] = "idle"

Types == TypeOK /\ Offstage

Good == Versions \ Broken

\* The file a process runs from is where the process believes it, and good.
Running ==
    \A p \in Procs :
        /\ ~At(p, "off") => runs[p] \in {"image", "old"} /\ ver[p] \in Good
        /\ At(p, "off") => runs[p] = "none"
        /\ runs[p] = "image" => disk.image = ver[p]
        /\ runs[p] = "old" => disk.old = ver[p]

\* What was moved aside was running, so it is good.
Kept ==
    /\ disk.old \in {None} \cup Good
    /\ disk.image \in Good \/ disk.old \in Good

\* No record, stored or on its way, names a release not signed yet.
Signed ==
    /\ reg.etag <= release /\ NothingSilenced
    /\ \A p \in Procs :
        /\ got[p] <= release /\ st[p].etag <= release
        /\ st[p].etag = release => "sig" \in up

Filed == Types /\ Running /\ Kept

-----------------------------------------------------------------------------
(* Types: one step of each kind.                                           *)

LEMMA RecordType ==
    ASSUME NEW s \in State, NEW v \in {None} \cup Versions
    PROVE  [s EXCEPT !.etag = v] \in State /\ [s EXCEPT !.pending = v] \in State
  BY DEF State

LEMMA ClearRecord ==
    ASSUME Types, NEW p \in Procs, Clear(p)
    PROVE  reg' \in State /\ st' \in [Procs -> State]
<1>1. st \in [Procs -> State]
  BY DEF Types, TypeOK
<1>2. NoState \in State
  BY DEF NoState, State, None
<1> QED
  BY <1>1, <1>2, RecordType DEF Clear

LEMMA VerifiedRecord ==
    ASSUME Types, NEW p \in Procs, Verified(p)
    PROVE  reg' \in State /\ st' \in [Procs -> State]
<1>1. st \in [Procs -> State] /\ got[p] \in {None} \cup Versions
  BY DEF Types, TypeOK
<1>2. NoState \in State
  BY DEF NoState, State, None
<1> QED
  BY <1>1, <1>2, RecordType DEF Verified, Save, Forget

LEMMA StartsType == ASSUME Types, NEW p \in Procs, Starts(p) PROVE Types'
<1> USE UpdateAssumption DEF Types, TypeOK, Offstage, Newer, Genuine, Matches, At, Goes, Ends,
        Leaves, Moved, CheckIs, Over, Forget, Save, Versions, None, Torn, Files, Assets,
        State, NoState, server, main, check
<1>1. CASE Launch(p)
  BY <1>1 DEF Launch
<1>2. CASE Clean(p)
  BY <1>2 DEF Clean
<1>3. CASE Retire(p)
  BY <1>3 DEF Retire
<1>4. CASE Keep(p)
  BY <1>4 DEF Keep
<1>5. CASE Clear(p)
  <2>1. reg' \in State /\ st' \in [Procs -> State]
    BY <1>5, ClearRecord
  <2>2. ui' \in [Procs -> {"off", "clean", "retire", "clear", "floor", "idle", "download",
                      "hash", "swap", "place", "undo", "record"}]
    BY <1>5 DEF Clear
  <2> QED
    BY <1>5, <2>1, <2>2 DEF Clear
<1>6. CASE MeetsFloor(p)
  BY <1>6 DEF MeetsFloor
<1>7. CASE FloorRefused(p)
  BY <1>7 DEF FloorRefused
<1> QED
  BY <1>1, <1>2, <1>3, <1>4, <1>5, <1>6, <1>7 DEF Starts

LEMMA ChecksType == ASSUME Types, NEW p \in Procs, Checks(p) PROVE Types'
<1> USE UpdateAssumption DEF Types, TypeOK, Offstage, Newer, Genuine, Matches, At, Goes, Ends,
        Leaves, Moved, CheckIs, Over, Forget, Save, Versions, None, Torn, Files, Assets,
        State, NoState, server, main, check
<1>1. CASE BeginCheck(p)
  BY <1>1 DEF BeginCheck
<1>2. CASE Offline(p)
  BY <1>2 DEF Offline
<1>3. CASE NotModified(p)
  BY <1>3 DEF NotModified
<1>4. CASE NoDocument(p)
  BY <1>4 DEF NoDocument
<1>5. CASE GetDocument(p)
  BY <1>5 DEF GetDocument
<1>6. CASE Unsigned(p)
  BY <1>6 DEF Unsigned
<1>7. CASE Verified(p)
  <2>1. reg' \in State /\ st' \in [Procs -> State]
    BY <1>7, VerifiedRecord
  <2>2. /\ offers' \in [Procs -> SUBSET Versions]
       /\ \A q \in Procs : \A v \in offers'[q] : v > ver'[q]
    BY <1>7 DEF Verified
  <2>3. /\ chk' \in [Procs -> Over \cup {"json", "sig"}]
       /\ got' \in [Procs -> {None} \cup Versions]
    BY <1>7 DEF Verified
  <2>4. Offstage'
    BY <1>7 DEF Verified
  <2> QED
    BY <1>7, <2>1, <2>2, <2>3, <2>4 DEF Verified
<1> QED
  BY <1>1, <1>2, <1>3, <1>4, <1>5, <1>6, <1>7 DEF Checks

LEMMA StagesType == ASSUME Types, NEW p \in Procs, Stages(p) PROVE Types'
<1> USE UpdateAssumption DEF Types, TypeOK, Offstage, Newer, Genuine, Matches, At, Goes, Ends,
        Leaves, Moved, CheckIs, Over, Forget, Save, Versions, None, Torn, Files, Assets,
        State, NoState, server, main, check
<1>1. CASE Postpone(p)
  BY <1>1 DEF Postpone
<1>2. CASE Accept(p)
  <2>1. /\ offers' \in [Procs -> SUBSET Versions]
       /\ \A q \in Procs : \A v \in offers'[q] : v > ver'[q]
    BY <1>2 DEF Accept
  <2>2. take' \in [Procs -> {None} \cup Versions]
    BY <1>2 DEF Accept
  <2>3. Offstage'
    BY <1>2 DEF Accept
  <2> QED
    BY <1>2, <2>1, <2>2, <2>3 DEF Accept
<1>3. CASE Fetch(p)
  BY <1>3 DEF Fetch
<1>4. CASE FetchFails(p)
  BY <1>4 DEF FetchFails
<1>5. CASE VerifyPayload(p)
  BY <1>5 DEF VerifyPayload
<1> QED
  BY <1>1, <1>2, <1>3, <1>4, <1>5 DEF Stages

LEMMA SwapsType == ASSUME Types, NEW p \in Procs, Swaps(p) PROVE Types'
<1> USE UpdateAssumption DEF Types, TypeOK, Offstage, Newer, Genuine, Matches, At, Goes, Ends,
        Leaves, Moved, CheckIs, Over, Forget, Save, Versions, None, Torn, Files, Assets,
        State, NoState, server, main, check
<1>1. CASE Exit(p)
  BY <1>1 DEF Exit
<1>2. CASE ExitStaged(p)
  BY <1>2 DEF ExitStaged
<1>3. CASE MoveAside(p)
  BY <1>3 DEF MoveAside
<1>4. CASE NoSwap(p)
  BY <1>4 DEF NoSwap
<1>5. CASE Place(p)
  <2>1. disk' \in [image : Files, new : Files, old : Files]
    BY <1>5 DEF Place
  <2>2. Offstage'
    BY <1>5 DEF Place
  <2> QED
    BY <1>5, <2>1, <2>2 DEF Place
<1>6. CASE NotPlaced(p)
  BY <1>6 DEF NotPlaced
<1>7. CASE Undo(p)
  BY <1>7 DEF Undo
<1>8. CASE NotUndone(p)
  BY <1>8 DEF NotUndone
<1>9. CASE Record(p)
  BY <1>9 DEF Record
<1> QED
  BY <1>1, <1>2, <1>3, <1>4, <1>5, <1>6, <1>7, <1>8, <1>9 DEF Swaps

-----------------------------------------------------------------------------
(* Files: who moves one is running from another.                           *)

LEMMA StartsFile == ASSUME Filed, NEW p \in Procs, Starts(p) PROVE (Running /\ Kept)'
<1> USE UpdateAssumption DEF Filed, Types, TypeOK, Running, Kept, Good, At, Goes, Ends, Leaves,
        Moved, InUse, Versions, None, Torn, Files, main
<1>1. CASE Launch(p)
  BY <1>1 DEF Launch
<1>2. CASE Clean(p)
  BY <1>2 DEF Clean
<1>3. CASE Retire(p)
  BY <1>3 DEF Retire
<1>4. CASE Keep(p)
  BY <1>4 DEF Keep
<1>5. CASE Clear(p)
  BY <1>5 DEF Clear
<1>6. CASE MeetsFloor(p)
  BY <1>6 DEF MeetsFloor
<1>7. CASE FloorRefused(p)
  BY <1>7 DEF FloorRefused
<1> QED
  BY <1>1, <1>2, <1>3, <1>4, <1>5, <1>6, <1>7 DEF Starts

LEMMA ChecksFile == ASSUME Filed, NEW p \in Procs, Checks(p) PROVE (Running /\ Kept)'
<1> USE UpdateAssumption DEF Filed, Types, TypeOK, Running, Kept, Good, At, Goes, Ends, Leaves,
        Moved, InUse, Versions, None, Torn, Files, main
<1>1. CASE BeginCheck(p)
  BY <1>1 DEF BeginCheck
<1>2. CASE Offline(p)
  BY <1>2 DEF Offline
<1>3. CASE NotModified(p)
  BY <1>3 DEF NotModified
<1>4. CASE NoDocument(p)
  BY <1>4 DEF NoDocument
<1>5. CASE GetDocument(p)
  BY <1>5 DEF GetDocument
<1>6. CASE Unsigned(p)
  BY <1>6 DEF Unsigned
<1>7. CASE Verified(p)
  BY <1>7 DEF Verified
<1> QED
  BY <1>1, <1>2, <1>3, <1>4, <1>5, <1>6, <1>7 DEF Checks

LEMMA StagesFile == ASSUME Filed, NEW p \in Procs, Stages(p) PROVE (Running /\ Kept)'
<1> USE UpdateAssumption DEF Filed, Types, TypeOK, Running, Kept, Good, At, Goes, Ends, Leaves,
        Moved, InUse, Versions, None, Torn, Files, main
<1>1. CASE Postpone(p)
  BY <1>1 DEF Postpone
<1>2. CASE Accept(p)
  BY <1>2 DEF Accept
<1>3. CASE Fetch(p)
  BY <1>3 DEF Fetch
<1>4. CASE FetchFails(p)
  BY <1>4 DEF FetchFails
<1>5. CASE VerifyPayload(p)
  BY <1>5 DEF VerifyPayload
<1> QED
  BY <1>1, <1>2, <1>3, <1>4, <1>5 DEF Stages

LEMMA SwapsFile == ASSUME Filed, NEW p \in Procs, Swaps(p) PROVE (Running /\ Kept)'
<1> USE UpdateAssumption DEF Filed, Types, TypeOK, Running, Kept, Good, At, Goes, Ends, Leaves,
        Moved, InUse, Versions, None, Torn, Files, main
<1>1. CASE Exit(p)
  BY <1>1 DEF Exit
<1>2. CASE ExitStaged(p)
  BY <1>2 DEF ExitStaged
<1>3. CASE MoveAside(p)
  BY <1>3 DEF MoveAside
<1>4. CASE NoSwap(p)
  BY <1>4 DEF NoSwap
<1>5. CASE Place(p)
  BY <1>5 DEF Place
<1>6. CASE NotPlaced(p)
  BY <1>6 DEF NotPlaced
<1>7. CASE Undo(p)
  BY <1>7 DEF Undo
<1>8. CASE NotUndone(p)
  BY <1>8 DEF NotUndone
<1>9. CASE Record(p)
  BY <1>9 DEF Record
<1> QED
  BY <1>1, <1>2, <1>3, <1>4, <1>5, <1>6, <1>7, <1>8, <1>9 DEF Swaps

-----------------------------------------------------------------------------
(* The record: every copy of it is as good as the one that is stored.      *)

LEMMA StartsSign == ASSUME Types /\ Signed, NEW p \in Procs, Starts(p) PROVE Signed'
<1> USE UpdateAssumption DEF Types, TypeOK, Signed, NothingSilenced, Genuine, Ends, Leaves, CheckIs,
        At, Over, Forget, Save, Versions, None, Assets, State, NoState, server, check
<1>1. CASE Launch(p)
  BY <1>1 DEF Launch
<1>2. CASE Clean(p)
  BY <1>2 DEF Clean
<1>3. CASE Retire(p)
  BY <1>3 DEF Retire
<1>4. CASE Keep(p)
  BY <1>4 DEF Keep
<1>5. CASE Clear(p)
  BY <1>5 DEF Clear
<1>6. CASE MeetsFloor(p)
  BY <1>6 DEF MeetsFloor
<1>7. CASE FloorRefused(p)
  BY <1>7 DEF FloorRefused
<1> QED
  BY <1>1, <1>2, <1>3, <1>4, <1>5, <1>6, <1>7 DEF Starts

LEMMA ChecksSign == ASSUME Types /\ Signed, NEW p \in Procs, Checks(p) PROVE Signed'
<1> USE UpdateAssumption DEF Types, TypeOK, Signed, NothingSilenced, Genuine, Ends, Leaves, CheckIs,
        At, Over, Forget, Save, Versions, None, Assets, State, NoState, server, check
<1>1. CASE BeginCheck(p)
  BY <1>1 DEF BeginCheck
<1>2. CASE Offline(p)
  BY <1>2 DEF Offline
<1>3. CASE NotModified(p)
  BY <1>3 DEF NotModified
<1>4. CASE NoDocument(p)
  BY <1>4 DEF NoDocument
<1>5. CASE GetDocument(p)
  BY <1>5 DEF GetDocument
<1>6. CASE Unsigned(p)
  BY <1>6 DEF Unsigned
<1>7. CASE Verified(p)
  BY <1>7 DEF Verified
<1> QED
  BY <1>1, <1>2, <1>3, <1>4, <1>5, <1>6, <1>7 DEF Checks

LEMMA StagesSign == ASSUME Types /\ Signed, NEW p \in Procs, Stages(p) PROVE Signed'
<1> USE UpdateAssumption DEF Types, TypeOK, Signed, NothingSilenced, Genuine, Ends, Leaves, CheckIs,
        At, Over, Forget, Save, Versions, None, Assets, State, NoState, server, check
<1>1. CASE Postpone(p)
  BY <1>1 DEF Postpone
<1>2. CASE Accept(p)
  BY <1>2 DEF Accept
<1>3. CASE Fetch(p)
  BY <1>3 DEF Fetch
<1>4. CASE FetchFails(p)
  BY <1>4 DEF FetchFails
<1>5. CASE VerifyPayload(p)
  BY <1>5 DEF VerifyPayload
<1> QED
  BY <1>1, <1>2, <1>3, <1>4, <1>5 DEF Stages

LEMMA SwapsSign == ASSUME Types /\ Signed, NEW p \in Procs, Swaps(p) PROVE Signed'
<1> USE UpdateAssumption DEF Types, TypeOK, Signed, NothingSilenced, Genuine, Ends, Leaves, CheckIs,
        At, Over, Forget, Save, Versions, None, Assets, State, NoState, server, check
<1>1. CASE Exit(p)
  BY <1>1 DEF Exit
<1>2. CASE ExitStaged(p)
  BY <1>2 DEF ExitStaged
<1>3. CASE MoveAside(p)
  BY <1>3 DEF MoveAside
<1>4. CASE NoSwap(p)
  BY <1>4 DEF NoSwap
<1>5. CASE Place(p)
  BY <1>5 DEF Place
<1>6. CASE NotPlaced(p)
  BY <1>6 DEF NotPlaced
<1>7. CASE Undo(p)
  BY <1>7 DEF Undo
<1>8. CASE NotUndone(p)
  BY <1>8 DEF NotUndone
<1>9. CASE Record(p)
  BY <1>9 DEF Record
<1> QED
  BY <1>1, <1>2, <1>3, <1>4, <1>5, <1>6, <1>7, <1>8, <1>9 DEF Swaps

-----------------------------------------------------------------------------
(* The steps of nobody's process, and of the end of one.                   *)

LEMMA OthersType ==
    ASSUME Types, Publish \/ Upload \/ Toggle \/ Restore \/ \E p \in Procs : Kill(p)
    PROVE  Types'
<1> USE UpdateAssumption DEF Types, TypeOK, Offstage, At, Over, Ends, Leaves, Versions, None, Torn,
        Files, Assets, State, NoState, server, main, check
<1>1. CASE Publish
  BY <1>1 DEF Publish
<1>2. CASE Upload
  BY <1>2 DEF Upload
<1>3. CASE Toggle
  BY <1>3 DEF Toggle
<1>4. CASE Restore
  BY <1>4 DEF Restore
<1>5. CASE \E p \in Procs : Kill(p)
  BY <1>5 DEF Kill
<1> QED
  BY <1>1, <1>2, <1>3, <1>4, <1>5

LEMMA OthersFile ==
    ASSUME Filed, Publish \/ Upload \/ Toggle \/ Restore \/ \E p \in Procs : Kill(p)
    PROVE  (Running /\ Kept)'
<1> USE UpdateAssumption DEF Filed, Types, TypeOK, Running, Kept, Good, At, Ends, Leaves,
        Versions, None, Torn, Files, main
<1>1. CASE Publish \/ Upload \/ Toggle
  BY <1>1 DEF Publish, Upload, Toggle
<1>2. CASE Restore
  BY <1>2 DEF Restore
<1>3. CASE \E p \in Procs : Kill(p)
  BY <1>3 DEF Kill
<1> QED
  BY <1>1, <1>2, <1>3

LEMMA OthersSign ==
    ASSUME Types, Signed, Publish \/ Upload \/ Toggle \/ Restore \/ \E p \in Procs : Kill(p)
    PROVE  Signed'
<1> USE UpdateAssumption DEF Types, TypeOK, Signed, NothingSilenced, At, Ends, Leaves,
        Versions, None, Assets, State, NoState, server, check
<1>1. CASE Publish
  <2>1. /\ reg.etag < release' /\ reg' = reg
        /\ \A p \in Procs : got[p] < release' /\ st[p].etag < release'
    BY <1>1 DEF Publish
  <2> QED
    BY <1>1, <2>1 DEF Publish
<1>2. CASE Upload
  BY <1>2 DEF Upload
<1>3. CASE Toggle \/ Restore
  BY <1>3 DEF Toggle, Restore
<1>4. CASE \E p \in Procs : Kill(p)
  BY <1>4 DEF Kill
<1> QED
  BY <1>1, <1>2, <1>3, <1>4

-----------------------------------------------------------------------------
(* The theorems.                                                           *)

LEMMA InitKept == Init => Filed /\ Signed
  BY UpdateAssumption DEF Init, Filed, Types, TypeOK, Offstage, Running, Kept, Signed,
     NothingSilenced, Good, At, Versions, None, Torn, Files, Assets, State, NoState, Over

LEMMA StutterKeeps == (Filed /\ Signed /\ UNCHANGED vars) => (Filed /\ Signed)'
  BY DEF Filed, Types, TypeOK, Offstage, Running, Kept, Signed, NothingSilenced, At, State,
     vars, server, main, check

LEMMA NextKeeps == (Filed /\ Signed /\ [Next]_vars) => (Filed /\ Signed)'
<1> SUFFICES ASSUME Filed, Signed, [Next]_vars PROVE (Filed /\ Signed)'
  OBVIOUS
<1>1. CASE Publish \/ Upload \/ Toggle \/ Restore \/ \E p \in Procs : Kill(p)
  BY <1>1, OthersType, OthersFile, OthersSign DEF Filed
<1>2. CASE \E p \in Procs : Starts(p)
  BY <1>2, StartsType, StartsFile, StartsSign DEF Filed
<1>3. CASE \E p \in Procs : Checks(p)
  BY <1>3, ChecksType, ChecksFile, ChecksSign DEF Filed
<1>4. CASE \E p \in Procs : Stages(p)
  BY <1>4, StagesType, StagesFile, StagesSign DEF Filed
<1>5. CASE \E p \in Procs : Swaps(p)
  BY <1>5, SwapsType, SwapsFile, SwapsSign DEF Filed
<1>6. CASE UNCHANGED vars
  BY <1>6, StutterKeeps
<1> QED
  BY <1>1, <1>2, <1>3, <1>4, <1>5, <1>6 DEF Next

\* The files and the record, as every process and every copy sees them.
THEOREM UpdateInvariant == Spec => [](Filed /\ Signed)
  BY InitKept, NextKeeps, PTL DEF Spec

\* Every variable of the updater keeps its type, and what is posted to the
\* front end is newer than what runs.
THEOREM TypeCorrect == Spec => []TypeOK
<1>1. Filed => TypeOK
  BY DEF Filed, Types
<1> QED
  BY <1>1, UpdateInvariant, PTL

\* Rule 2 of update.h: whatever is killed, and whoever updates beside whom,
\* one rename at most is between the user and a build that comes up.
THEOREM NeverWithoutABuild == Spec => []AlwaysOneThatStarts
<1>1. Filed => AlwaysOneThatStarts
  BY DEF Filed, Kept, Good, AlwaysOneThatStarts
<1> QED
  BY <1>1, UpdateInvariant, PTL

\* Note 2 of update.c: a release whose signature is still to come is fetched
\* again, whatever copies of the record the checks write back.
THEOREM HalfPublishedIsSeenAgain == Spec => []NothingSilenced
<1>1. Signed => NothingSilenced
  BY DEF Signed
<1> QED
  BY <1>1, UpdateInvariant, PTL
-----------------------------------------------------------------------------
(* What is put in place.  Nothing keeps another process from writing the   *)
(* .new that one has verified; nothing else spoils it.                     *)

Swapping == {"swap", "place", "undo", "record"}
Moving   == {"place", "undo"}

\* What was promised is known as long as it matters.
Wants ==
    \A p \in Procs :
        /\ ui[p] \in {"off", "clean", "retire", "clear", "floor"} => want[p] = None
        /\ ui[p] \in Swapping => want[p] # None
        /\ ui[p] \in {"download", "hash"} => take[p] # None

\* One process writes .new, and has overtaken the others that have one staged.
Writer ==
    \A p \in Procs : At(p, "download") =>
        /\ disk.new \in {None, Torn}
        /\ \A q \in Procs \ {p} : ~At(q, "download") /\ (want[q] # None => q \in overtaken)

\* Who was not overtaken finds .new as it was verified, or deleted.
Verbatim ==
    \A p \in Procs \ overtaken : want[p] # None =>
        /\ ui[p] \in {"idle", "swap", "place"} => disk.new \in {None, want[p]}
        /\ At(p, "record") => disk.new = None

\* One process at a time has moved the image aside.
Mover ==
    \A p \in Procs : ui[p] \in Moving =>
        disk.image = None /\ \A q \in Procs \ {p} : ui[q] \notin Moving

Promised == Wants /\ Writer /\ Verbatim /\ Mover /\ InPlaceAsPromised

LEMMA StartsPromised ==
    ASSUME Types, Promised, NEW p \in Procs, Starts(p) PROVE Promised'
<1> USE UpdateAssumption DEF Promised, Wants, Writer, Verbatim, Mover, InPlaceAsPromised, Swapping,
        Moving, Types, TypeOK, Matches, Downloading, At, Goes, Ends, Leaves, CheckIs, Versions,
        None, Torn, Files, main
<1>1. CASE Launch(p)
  BY <1>1 DEF Launch
<1>2. CASE Clean(p)
  BY <1>2 DEF Clean
<1>3. CASE Retire(p)
  BY <1>3 DEF Retire
<1>4. CASE Keep(p)
  BY <1>4 DEF Keep
<1>5. CASE Clear(p)
  BY <1>5 DEF Clear
<1>6. CASE MeetsFloor(p)
  BY <1>6 DEF MeetsFloor
<1>7. CASE FloorRefused(p)
  BY <1>7 DEF FloorRefused
<1> QED
  BY <1>1, <1>2, <1>3, <1>4, <1>5, <1>6, <1>7 DEF Starts

LEMMA ChecksPromised ==
    ASSUME Types, Promised, NEW p \in Procs, Checks(p) PROVE Promised'
<1> USE UpdateAssumption DEF Promised, Wants, Writer, Verbatim, Mover, InPlaceAsPromised, Swapping,
        Moving, Types, TypeOK, Matches, Downloading, At, Goes, Ends, Leaves, CheckIs, Versions,
        None, Torn, Files, main
<1>1. CASE BeginCheck(p)
  BY <1>1 DEF BeginCheck
<1>2. CASE Offline(p)
  BY <1>2 DEF Offline
<1>3. CASE NotModified(p)
  BY <1>3 DEF NotModified
<1>4. CASE NoDocument(p)
  BY <1>4 DEF NoDocument
<1>5. CASE GetDocument(p)
  BY <1>5 DEF GetDocument
<1>6. CASE Unsigned(p)
  BY <1>6 DEF Unsigned
<1>7. CASE Verified(p)
  BY <1>7 DEF Verified
<1> QED
  BY <1>1, <1>2, <1>3, <1>4, <1>5, <1>6, <1>7 DEF Checks

LEMMA StagesPromised ==
    ASSUME Types, Promised, NEW p \in Procs, Stages(p) PROVE Promised'
<1> USE UpdateAssumption DEF Promised, Wants, Writer, Verbatim, Mover, InPlaceAsPromised, Swapping,
        Moving, Types, TypeOK, Matches, Downloading, At, Goes, Ends, Leaves, CheckIs, Versions,
        None, Torn, Files, main
<1>1. CASE Postpone(p)
  BY <1>1 DEF Postpone
<1>2. CASE Accept(p)
  BY <1>2 DEF Accept
<1>3. CASE Fetch(p)
  BY <1>3 DEF Fetch
<1>4. CASE FetchFails(p)
  BY <1>4 DEF FetchFails
<1>5. CASE VerifyPayload(p)
  BY <1>5 DEF VerifyPayload
<1> QED
  BY <1>1, <1>2, <1>3, <1>4, <1>5 DEF Stages

LEMMA SwapsPromised ==
    ASSUME Types, Promised, NEW p \in Procs, Swaps(p) PROVE Promised'
<1> USE UpdateAssumption DEF Promised, Wants, Writer, Verbatim, Mover, InPlaceAsPromised, Swapping,
        Moving, Types, TypeOK, Matches, Downloading, At, Goes, Ends, Leaves, CheckIs, Versions,
        None, Torn, Files, main
<1>1. CASE Exit(p)
  BY <1>1 DEF Exit
<1>2. CASE ExitStaged(p)
  BY <1>2 DEF ExitStaged
<1>3. CASE MoveAside(p)
  BY <1>3 DEF MoveAside
<1>4. CASE NoSwap(p)
  BY <1>4 DEF NoSwap
<1>5. CASE Place(p)
  BY <1>5 DEF Place
<1>6. CASE NotPlaced(p)
  BY <1>6 DEF NotPlaced
<1>7. CASE Undo(p)
  BY <1>7 DEF Undo
<1>8. CASE NotUndone(p)
  BY <1>8 DEF NotUndone
<1>9. CASE Record(p)
  BY <1>9 DEF Record
<1> QED
  BY <1>1, <1>2, <1>3, <1>4, <1>5, <1>6, <1>7, <1>8, <1>9 DEF Swaps

LEMMA OthersPromised ==
    ASSUME Types, Promised,
           Publish \/ Upload \/ Toggle \/ Restore \/ (\E p \in Procs : Kill(p)) \/ UNCHANGED vars
    PROVE  Promised'
<1> USE UpdateAssumption DEF Promised, Wants, Writer, Verbatim, Mover, InPlaceAsPromised, Swapping,
        Moving, Types, TypeOK, Matches, Downloading, At, Goes, Ends, Leaves, CheckIs, Versions,
        None, Torn, Files, main
<1>1. CASE Publish \/ Upload \/ Toggle \/ UNCHANGED vars
  BY <1>1 DEF Publish, Upload, Toggle, vars
<1>2. CASE Restore
  BY <1>2 DEF Restore
<1>3. CASE \E p \in Procs : Kill(p)
  BY <1>3 DEF Kill
<1> QED
  BY <1>1, <1>2, <1>3

\* "Verification happens before anything is even renamed into place" (update.h): the
\* file a swap has put in place is the release its user accepted and whose hash was
\* compared, whoever else starts, cleans up, checks, updates or is killed meanwhile,
\* unless one of them has begun to download over it; then it need not be.
THEOREM WhatWasVerifiedIsInPlace == Spec => []InPlaceAsPromised
<1>1. Init => Promised
  BY DEF Init, Promised, Wants, Writer, Verbatim, Mover, InPlaceAsPromised, Swapping, Moving, At
<1>2. Filed /\ Promised /\ [Next]_vars => Promised'
  BY StartsPromised, ChecksPromised, StagesPromised, SwapsPromised, OthersPromised
     DEF Next, Filed
<1>3. Promised => InPlaceAsPromised
  BY DEF Promised
<1> QED
  BY <1>1, <1>2, <1>3, UpdateInvariant, PTL DEF Spec
=============================================================================
