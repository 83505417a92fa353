---------------------------- MODULE PolicyBundle ----------------------------
(***************************************************************************)
(* How a policy reaches OPA.  scripts/policy-ci.sh puts a signed bundle    *)
(* and a badly signed fixture on disk (rm, then cp); the Bundle Service    *)
(* (src/internal/policybundle/server.go) serves one of the two under an    *)
(* ETag made of the revision it read from the manifest when it started;    *)
(* OPA polls it, keeps the ETag of the bundle it runs, and verifies what   *)
(* it downloads.  OPA is external: it is modelled from its configuration   *)
(* and from what the smoke test expects of its status.                     *)
(*                                                                         *)
(* A bundle is the number of the policy-ci run that built it.  The files   *)
(* are replaced while the server runs, and it may be asked at any moment   *)
(* of the replacement.                                                     *)
(***************************************************************************)
EXTENDS Integers, FiniteSets

CONSTANTS
  MaxVersion,  \* bound: runs of policy-ci
  MaxFaults,   \* bound: crashes of the server, restarts of OPA, script kills
  Revisions,   \* values of POLICY_REVISION
  Untrusted,   \* each of them with "-untrusted-update" after it
  NoTag        \* no ETag

Versions == 1..MaxVersion
Files == {"valid", "fixture"}
Tags == Revisions \cup {Untrusted[r] : r \in Revisions}

ASSUME BundleAssumption ==
  /\ MaxVersion \in Nat /\ MaxFaults \in Nat
  /\ \A r \in Revisions : Untrusted[r] # r
  /\ NoTag \notin Tags

VARIABLES
  revisionOf,      \* the revision each run of policy-ci is given
  version,         \* the last run that passed the gates and built its bundles
  step,            \* where that run is in rm, cp; 0 when none is copying
  disk,            \* the run each file is of, 0 when absent
  partial,         \* the files cp has created and not yet filled
  serverPc,        \* the bundle server: down, starting or up
  validRevision, invalidRevision, invalid,      \* service's fields
  reqPc,           \* OPA's poll: idle, sent, chosen (file and tag), replied
  reqTag,          \* If-None-Match, then the ETag of the answer
  reqFile, status, body, whole,                 \* the answer
  active,          \* the bundle OPA runs, 0 before the first
  activeTag,       \* the ETag it came with
  failing,         \* OPA's status API shows an error code
  faults

script == <<version, step, disk, partial>>
server == <<serverPc, validRevision, invalidRevision, invalid>>
request == <<reqPc, reqTag, reqFile, status, body, whole>>
opa == <<active, activeTag, failing>>
vars == <<revisionOf, script, server, request, opa, faults>>

\* The revision inside run v's bundle, or inside its fixture.  The fixture's
\* may be the revision another run was given.
TagOf(f, v) ==
  IF f = "valid" THEN revisionOf[v] ELSE Untrusted[revisionOf[v]]

Init ==
  /\ revisionOf \in [Versions -> Revisions]
  /\ version = 0 /\ step = 0
  /\ disk = [f \in Files |-> 0] /\ partial = {}
  /\ serverPc = "down"
  /\ validRevision = NoTag /\ invalidRevision = NoTag /\ invalid = FALSE
  /\ reqPc = "idle" /\ reqTag = NoTag /\ reqFile = "valid"
  /\ status = "none" /\ body = 0 /\ whole = FALSE
  /\ active = 0 /\ activeTag = NoTag /\ failing = FALSE
  /\ faults = 0

\* A request's values live as long as the request.
RequestOver ==
  /\ reqPc' = "idle" /\ reqTag' = NoTag /\ reqFile' = "valid"
  /\ status' = "none" /\ body' = 0 /\ whole' = FALSE

-----------------------------------------------------------------------------
(* scripts/policy-ci.sh *)

RemoveStep == [valid |-> 1, fixture |-> 2]
CreateStep == [valid |-> 3, fixture |-> 5]
FillStep == [valid |-> 4, fixture |-> 6]

\* Every gate passes and both bundles are built, in a workspace of their own.
Build ==
  /\ step = 0 /\ version < MaxVersion
  /\ version' = version + 1 /\ step' = 1
  /\ UNCHANGED <<revisionOf, disk, partial, server, request, opa, faults>>

\* rm -f
Remove(f) ==
  /\ step = RemoveStep[f]
  /\ step' = step + 1
  /\ disk' = [disk EXCEPT ![f] = 0]
  /\ partial' = partial \ {f}
  /\ UNCHANGED <<revisionOf, version, server, request, opa, faults>>

\* Faulty variant: an older artifact left in the workspace is copied.
CreateAny(f) ==
  /\ step = CreateStep[f]
  /\ step' = step + 1
  /\ \E v \in 1..version : disk' = [disk EXCEPT ![f] = v]
  /\ partial' = partial \cup {f}
  /\ UNCHANGED <<revisionOf, version, server, request, opa, faults>>

\* cp creates the file ...
Create(f) ==
  /\ step = CreateStep[f]
  /\ step' = step + 1
  /\ disk' = [disk EXCEPT ![f] = version]
  /\ partial' = partial \cup {f}
  /\ UNCHANGED <<revisionOf, version, server, request, opa, faults>>

\* ... and has written all of it.
Fill(f) ==
  /\ step = FillStep[f]
  /\ step' = (step + 1) % 7
  /\ partial' = partial \ {f}
  /\ UNCHANGED <<revisionOf, version, disk, server, request, opa, faults>>

\* The script is killed; the files stay as they are.
Abort ==
  /\ step > 0 /\ faults < MaxFaults
  /\ step' = 0 /\ faults' = faults + 1
  /\ UNCHANGED <<revisionOf, version, disk, partial, server, request, opa>>

-----------------------------------------------------------------------------
(* The Bundle Service *)

\* NewHandler: the valid bundle's manifest.  A file that is still being copied
\* may or may not hold it yet; when it does not, the process ends.
StartReadValid ==
  /\ serverPc = "down" /\ disk["valid"] > 0
  /\ serverPc' = "starting"
  /\ validRevision' = TagOf("valid", disk["valid"])
  /\ UNCHANGED <<revisionOf, script, invalidRevision, invalid, request, opa,
                 faults>>

\* Faulty variant: both revisions are read from the valid bundle.
StartReadSame ==
  /\ serverPc = "starting" /\ disk["fixture"] > 0
  /\ serverPc' = "up"
  /\ invalidRevision' = validRevision
  /\ invalid' = FALSE
  /\ UNCHANGED <<revisionOf, script, validRevision, request, opa, faults>>

\* NewHandler: the fixture's manifest; the server listens.
StartReadInvalid ==
  /\ serverPc = "starting" /\ disk["fixture"] > 0
  /\ serverPc' = "up"
  /\ invalidRevision' = TagOf("fixture", disk["fixture"])
  /\ invalid' = FALSE
  /\ UNCHANGED <<revisionOf, script, validRevision, request, opa, faults>>

\* NewHandler: the fixture's manifest cannot be read.
StartFails ==
  /\ serverPc = "starting"
  /\ disk["fixture"] = 0 \/ "fixture" \in partial
  /\ serverPc' = "down" /\ validRevision' = NoTag
  /\ UNCHANGED <<revisionOf, script, invalidRevision, invalid, request, opa,
                 faults>>

\* publishInvalid and publishValid: 503 when the file is absent, and no change.
PublishInvalid ==
  /\ serverPc = "up" /\ disk["fixture"] > 0
  /\ invalid' = TRUE
  /\ UNCHANGED <<revisionOf, script, serverPc, validRevision, invalidRevision,
                 request, opa, faults>>

PublishValid ==
  /\ serverPc = "up" /\ disk["valid"] > 0
  /\ invalid' = FALSE
  /\ UNCHANGED <<revisionOf, script, serverPc, validRevision, invalidRevision,
                 request, opa, faults>>

\* Faulty variant: the revision is not switched with the path.
OfferedTagFixed == validRevision

\* bundle: what the flag, read under the lock, selects.
OfferedFile == IF invalid THEN "fixture" ELSE "valid"

OfferedTag == IF invalid THEN invalidRevision ELSE validRevision

\* Faulty variant: any If-None-Match is taken for a match.
AnswerAny ==
  /\ reqPc = "sent" /\ serverPc = "up"
  /\ reqTag # NoTag
  /\ reqPc' = "replied" /\ status' = "304"
  /\ UNCHANGED <<revisionOf, script, server, reqTag, reqFile, body, whole, opa,
                 faults>>

\* bundle: 304, before any file is looked at.
AnswerNotModified ==
  /\ reqPc = "sent" /\ serverPc = "up"
  /\ reqTag = OfferedTag
  /\ reqPc' = "replied" /\ status' = "304"
  /\ UNCHANGED <<revisionOf, script, server, reqTag, reqFile, body, whole, opa,
                 faults>>

\* bundle: path and ETag are chosen; the file is read later.
Choose ==
  /\ reqPc = "sent" /\ serverPc = "up"
  /\ reqTag # OfferedTag
  /\ reqPc' = "chosen" /\ reqTag' = OfferedTag /\ reqFile' = OfferedFile
  /\ UNCHANGED <<revisionOf, script, server, status, body, whole, opa, faults>>

\* bundle: ReadFile, then 200 with whatever the file holds now, or 503.
Read ==
  /\ reqPc = "chosen" /\ serverPc = "up"
  /\ reqPc' = "replied"
  /\ status' = IF disk[reqFile] = 0 THEN "503" ELSE "200"
  /\ body' = disk[reqFile] /\ whole' = (reqFile \notin partial)
  /\ UNCHANGED <<revisionOf, script, server, reqTag, reqFile, opa, faults>>

\* The process ends; a request it has not answered fails.
Crash ==
  /\ serverPc = "up" /\ faults < MaxFaults
  /\ serverPc' = "down" /\ faults' = faults + 1
  /\ validRevision' = NoTag /\ invalidRevision' = NoTag /\ invalid' = FALSE
  /\ \/ /\ reqPc \in {"sent", "chosen"}
        /\ reqPc' = "replied" /\ status' = "lost"
     \/ /\ reqPc \in {"idle", "replied"}
        /\ UNCHANGED <<reqPc, status>>
  /\ UNCHANGED <<revisionOf, script, reqTag, reqFile, body, whole, opa>>

-----------------------------------------------------------------------------
(* OPA (external): policies/opa-config.yaml, cmd/smoke's status checks *)

\* A poll carries the ETag of the bundle OPA runs; after an error it may carry
\* none.  Nobody answers while the server is down.
Poll ==
  /\ reqPc = "idle"
  /\ reqTag' \in {activeTag} \cup (IF failing THEN {NoTag} ELSE {})
  /\ \/ serverPc = "up" /\ reqPc' = "sent" /\ UNCHANGED status
     \/ serverPc # "up" /\ reqPc' = "replied" /\ status' = "lost"
  /\ UNCHANGED <<revisionOf, script, server, reqFile, body, whole, opa,
                 faults>>

\* A complete bundle with the configured key's signature.
Accepted == status = "200" /\ whole /\ reqFile = "valid"

Activate ==
  /\ reqPc = "replied" /\ Accepted
  /\ active' = body /\ activeTag' = reqTag /\ failing' = FALSE
  /\ RequestOver
  /\ UNCHANGED <<revisionOf, script, server, faults>>

Reject ==
  /\ reqPc = "replied" /\ ~Accepted /\ status # "304"
  /\ failing' = TRUE
  /\ RequestOver
  /\ UNCHANGED <<revisionOf, script, server, active, activeTag, faults>>

NotModified ==
  /\ reqPc = "replied" /\ status = "304"
  /\ failing' = FALSE
  /\ RequestOver
  /\ UNCHANGED <<revisionOf, script, server, active, activeTag, faults>>

\* Nothing is persisted, and a request under way is dropped.
OpaRestart ==
  /\ faults < MaxFaults /\ faults' = faults + 1
  /\ active' = 0 /\ activeTag' = NoTag /\ failing' = FALSE
  /\ RequestOver
  /\ UNCHANGED <<revisionOf, script, server>>

-----------------------------------------------------------------------------
Handler == AnswerNotModified \/ Choose \/ Read
Opa == Poll \/ Activate \/ Reject \/ NotModified

Next ==
  \/ Build \/ Abort
  \/ \E f \in Files : Remove(f) \/ Create(f) \/ Fill(f)
  \/ StartReadValid \/ StartReadInvalid \/ StartFails
  \/ PublishInvalid \/ PublishValid \/ Crash
  \/ Handler
  \/ Opa \/ OpaRestart

Spec == Init /\ [][Next]_vars

\* OPA polls every second, and net/http serves every request it accepts.
FairSpec == Spec /\ WF_vars(Handler) /\ WF_vars(Opa)

-----------------------------------------------------------------------------
(* Properties *)

\* The flags of the server, of an answer and of OPA.
FlagsOK == invalid \in BOOLEAN /\ whole \in BOOLEAN /\ failing \in BOOLEAN

\* The values the variables range over.
TypeOK ==
  /\ FlagsOK
  /\ revisionOf \in [Versions -> Revisions]
  /\ version \in 0..MaxVersion /\ step \in 0..6
  /\ disk \in [Files -> 0..MaxVersion] /\ partial \in SUBSET Files
  /\ serverPc \in {"down", "starting", "up"}
  /\ validRevision \in Tags \cup {NoTag}
  /\ invalidRevision \in Tags \cup {NoTag}
  /\ reqPc \in {"idle", "sent", "chosen", "replied"}
  /\ reqTag \in Tags \cup {NoTag} /\ reqFile \in Files
  /\ status \in {"none", "lost", "304", "503", "200"}
  /\ body \in 0..MaxVersion
  /\ active \in 0..MaxVersion /\ activeTag \in Tags \cup {NoTag}
  /\ faults \in Nat

\* Run v is not newer than the valid bundle on disk, or than the one that will
\* be put there next.
Reached(v) == v <= version /\ (disk["valid"] > 0 => v <= disk["valid"])

\* An ETag of the valid bundle of a run no later than v.
TagUpTo(t, v) == \E u \in 1..v : t = TagOf("valid", u)

\* The parts of the inductive invariant: a tag is never newer than the bundle
\* it is handed out with, and nothing OPA has or is being sent is older than
\* what it already runs.
DiskInv ==
  /\ \A f \in Files : disk[f] <= version
  /\ step \in 1..3 => disk["valid"] < version

ServerInv ==
  /\ serverPc # "down" =>
       \E v \in Versions : validRevision = TagOf("valid", v) /\ Reached(v)
  /\ serverPc = "up" =>
       \E v \in Versions : invalidRevision = TagOf("fixture", v) /\ v <= version

RequestInv ==
  /\ reqPc = "chosen" =>
       /\ serverPc = "up"
       /\ reqFile = "valid" =>
            \E v \in Versions : reqTag = TagOf("valid", v) /\ Reached(v)
  /\ reqPc = "replied" /\ Accepted =>
       /\ body >= active /\ body > 0 /\ Reached(body)
       /\ TagUpTo(reqTag, body)

OpaInv ==
  /\ Reached(active)
  /\ activeTag # NoTag => TagUpTo(activeTag, active)

\* The inductive invariant.
IInv == TypeOK /\ DiskInv /\ ServerInv /\ RequestInv /\ OpaInv

\* The valid bundle was replaced after the server read its revision.
Stale == validRevision # TagOf("valid", disk["valid"])

\* Another run was given the revision of the bundle on disk.
Reused ==
  \E v \in 1..version :
    v # disk["valid"] /\ revisionOf[v] = revisionOf[disk["valid"]]

\* A run was given the revision of the fixture of a run.
Shadowed ==
  \E u, v \in 1..version : revisionOf[u] = Untrusted[revisionOf[v]]

\* server.go bundle answers 304 from revisions it read at start-up, without
\* looking at the file: OPA is told its bundle is current only when it is the
\* valid bundle on disk, except where the file was replaced under the server,
\* a revision was given twice, or the file is gone.  An invalid update is
\* answered so only if a run was given the revision of a fixture.
NotModifiedIsCurrent ==
  serverPc = "up" /\ activeTag # NoTag /\ activeTag = OfferedTag =>
    /\ invalid => Shadowed
    /\ ~invalid /\ disk["valid"] > 0 =>
         active = disk["valid"] \/ Stale \/ Reused

\* README.md and the smoke test: whatever is published, however the files are
\* caught being replaced, OPA keeps its last good bundle until a newer run's
\* replaces it; only its own restart takes it away.
NeverOlder == [][active' >= active \/ OpaRestart]_vars

\* The server offers one whole bundle and will not be asked for another.
Settled ==
  /\ serverPc = "up" /\ ~invalid /\ step = 0
  /\ disk["valid"] > 0 /\ "valid" \notin partial
  /\ ~Stale /\ ~Reused

\* After the last update, restart and fault OPA ends up running the bundle on
\* disk with no error in its status (cmd/smoke: "did not reload restored").
Converges == <>[]Settled => <>[](active = disk["valid"] /\ ~failing)

InvalidOffered ==
  /\ serverPc = "up" /\ invalid
  /\ disk["fixture"] > 0
  /\ ~Shadowed

\* An invalid update that stays published is rejected for good: OPA's status
\* shows an error (cmd/smoke verifyRejectedPolicyUpdate), it is not hidden by
\* an answer that the bundle is unchanged, provided no run was given the
\* revision of a fixture.
RejectionSeen == <>[]InvalidOffered => <>[]failing

=============================================================================
