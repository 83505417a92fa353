------------------------- MODULE PolicyBundleProofs -------------------------
(***************************************************************************)
(* For any number of policy-ci runs, revisions and faults: a 304 speaks of *)
(* the bundle on disk, and OPA never goes back to an older bundle.         *)
(*                                                                         *)
(* What carries both is that a tag never runs ahead of the bundle it is    *)
(* served with: the server read it from a manifest that was on disk before *)
(* the file it sends now (Reached), so OPA's bundle is at least as new as  *)
(* its tag says (TagUpTo).                                                 *)
(***************************************************************************)
EXTENDS PolicyBundle, TLAPS

\* What the steps of policy-ci do to the files.
ScriptStep ==
  Build \/ Abort \/ \E f \in Files : Remove(f) \/ Create(f) \/ Fill(f)

\* The steps of the Bundle Service outside a request.
ServerStep ==
  \/ StartReadValid \/ StartReadInvalid \/ StartFails
  \/ PublishInvalid \/ PublishValid \/ Crash


\* In the first state nothing is published and nobody runs.
LEMMA InitInv == Init => IInv
<1> SUFFICES ASSUME Init PROVE IInv
  OBVIOUS
<1> USE BundleAssumption
<1>1. FlagsOK
  BY Zenon DEF Init, FlagsOK
<1>2. TypeOK
  BY <1>1 DEF Init, TypeOK, Files
<1>3. DiskInv /\ ServerInv
  BY DEF Init, DiskInv, ServerInv, Files
<1>4. RequestInv /\ OpaInv
  BY DEF Init, RequestInv, OpaInv, Reached, Files
<1>5. QED
  BY <1>2, <1>3, <1>4 DEF IInv

\* The flags stay flags.
LEMMA FlagsStep ==
  ASSUME FlagsOK, [Next]_vars
  PROVE  FlagsOK'
<1>1. CASE UNCHANGED <<invalid, whole, failing>>
  BY <1>1 DEF FlagsOK
<1>2. CASE StartReadInvalid \/ PublishInvalid \/ PublishValid \/ Crash
  BY <1>2, Zenon DEF StartReadInvalid, PublishInvalid, PublishValid, Crash,
    request, opa, FlagsOK
<1>3. CASE Read
  BY <1>3, Zenon DEF Read, server, opa, FlagsOK
<1>4. CASE Activate \/ Reject \/ NotModified \/ OpaRestart
  BY <1>4, Zenon DEF Activate, Reject, NotModified, OpaRestart, RequestOver,
    server, FlagsOK
<1>5. QED
  BY <1>1, <1>2, <1>3, <1>4 DEF Next, Build, Abort, Remove, Create, Fill,
    StartReadValid, StartFails, Handler, AnswerNotModified, Choose, Opa, Poll,
    vars, server, request, opa

\* Every variable keeps its type, whoever takes the step.
LEMMA TypeStep == TypeOK /\ [Next]_vars => TypeOK'
<1> SUFFICES ASSUME TypeOK, [Next]_vars PROVE TypeOK'
  OBVIOUS
<1> USE BundleAssumption
<1>0. FlagsOK'
  BY FlagsStep DEF TypeOK
<1>1. CASE ScriptStep
  <2>1. CASE Build \/ Abort
    BY <1>0, <2>1 DEF Build, Abort, TypeOK, server, request, opa
  <2>2. CASE \E f \in Files : Remove(f) \/ Create(f) \/ Fill(f)
    <3>1. PICK f \in Files : Remove(f) \/ Create(f) \/ Fill(f)
      BY <2>2
    <3>2. step' \in 0..6
      BY <3>1 DEF Remove, Create, Fill, RemoveStep, CreateStep, FillStep,
        Files, TypeOK
    <3>3. disk' \in [Files -> 0..MaxVersion] /\ partial' \in SUBSET Files
      BY <3>1 DEF Remove, Create, Fill, TypeOK
    <3>4. QED
      BY <1>0, <3>1, <3>2, <3>3 DEF Remove, Create, Fill, TypeOK, server,
        request, opa
  <2>3. QED
    BY <1>1, <2>1, <2>2 DEF ScriptStep
<1>2. CASE ServerStep
  <2>1. \A f \in Files, v \in Versions : TagOf(f, v) \in Tags
    BY DEF TagOf, Tags, TypeOK
  <2>2. \A f \in Files : disk[f] > 0 => disk[f] \in Versions
    BY DEF TypeOK, Versions
  <2>3. CASE StartReadValid \/ StartReadInvalid \/ StartFails
    BY <1>0, <2>1, <2>2, <2>3 DEF StartReadValid, StartReadInvalid, StartFails,
      TypeOK, Files, script, request, opa
  <2>4. CASE PublishInvalid \/ PublishValid \/ Crash
    BY <1>0, <2>4 DEF PublishInvalid, PublishValid, Crash, TypeOK, script,
      request, opa
  <2>5. QED
    BY <1>2, <2>3, <2>4 DEF ServerStep
<1>3. CASE Handler
  <2>1. CASE AnswerNotModified \/ Choose
    BY <1>0, <2>1 DEF AnswerNotModified, Choose, OfferedTag, OfferedFile,
      TypeOK, Files, script, server, opa
  <2>2. CASE Read
    BY <1>0, <2>2 DEF Read, TypeOK, script, server, opa
  <2>3. QED
    BY <1>3, <2>1, <2>2 DEF Handler
<1>4. CASE Opa \/ OpaRestart
  <2>1. CASE Poll
    BY <1>0, <2>1 DEF Poll, TypeOK, script, server, opa
  <2>2. CASE Activate \/ Reject \/ NotModified \/ OpaRestart
    <3>1. /\ reqPc' = "idle" /\ reqTag' = NoTag /\ reqFile' = "valid"
          /\ status' = "none" /\ body' = 0
      BY <2>2 DEF Activate, Reject, NotModified, OpaRestart, RequestOver
    <3>2. active' \in 0..MaxVersion /\ activeTag' \in Tags \cup {NoTag}
      BY <2>2 DEF Activate, Reject, NotModified, OpaRestart, TypeOK
    <3>3. faults' \in Nat
      BY <2>2 DEF Activate, Reject, NotModified, OpaRestart, TypeOK
    <3>4. UNCHANGED <<revisionOf, script, server>>
      BY <2>2 DEF Activate, Reject, NotModified, OpaRestart
    <3>5. QED
      BY <1>0, <3>1, <3>2, <3>3, <3>4 DEF TypeOK, Files, script, server
  <2>3. QED
    BY <1>4, <2>1, <2>2 DEF Opa
<1>5. CASE UNCHANGED vars
  BY <1>0, <1>5 DEF vars, TypeOK, script, server, request, opa
<1>6. QED
  BY <1>1, <1>2, <1>3, <1>4, <1>5 DEF Next, ScriptStep, ServerStep

\* What a step may do to the files: a run that was reached stays reached, and
\* the valid bundle on disk is only replaced by that of a later run.
LEMMA DiskStep ==
  ASSUME TypeOK, DiskInv, [Next]_vars
  PROVE  /\ DiskInv'
         /\ \A v \in Nat : Reached(v) => Reached(v)'
         /\ \A v \in Nat : v <= version => v <= version'
<1> USE BundleAssumption DEF TypeOK
<1>1. CASE ScriptStep
  BY <1>1 DEF ScriptStep, Build, Abort, Remove, Create, Fill, RemoveStep,
    CreateStep, FillStep, DiskInv, Reached, Files
<1>2. CASE UNCHANGED script
  BY <1>2 DEF script, DiskInv, Reached
<1>3. ScriptStep \/ UNCHANGED script
  BY DEF Next, ScriptStep, StartReadValid, StartReadInvalid, StartFails,
    PublishInvalid, PublishValid, Crash, Handler, AnswerNotModified, Choose,
    Read, Opa, OpaRestart, Poll, Activate, Reject, NotModified, vars
<1>4. QED
  BY <1>1, <1>2, <1>3

\* The revisions of the runs do not change.
LEMMA TagsFixed ==
  ASSUME [Next]_vars
  PROVE  /\ revisionOf' = revisionOf
         /\ \A f, v : TagOf(f, v)' = TagOf(f, v)
         /\ \A t, v : TagUpTo(t, v) => TagUpTo(t, v)'
<1>1. revisionOf' = revisionOf
  BY DEF Next, Build, Abort, Remove, Create, Fill, StartReadValid,
    StartReadInvalid, StartFails, PublishInvalid, PublishValid, Crash, Handler,
    AnswerNotModified, Choose, Read, Opa, OpaRestart, Poll, Activate, Reject,
    NotModified, vars
<1>2. QED
  BY <1>1 DEF TagOf, TagUpTo

\* The revisions the server holds are those of a run that was reached.
LEMMA ServerStepInv ==
  ASSUME IInv, [Next]_vars
  PROVE  ServerInv'
<1> USE BundleAssumption
<1>0. /\ \A v \in Nat : Reached(v) => Reached(v)'
      /\ \A v \in Nat : v <= version => v <= version'
      /\ \A f, v : TagOf(f, v)' = TagOf(f, v)
      /\ Versions \subseteq Nat
  BY DiskStep, TagsFixed DEF IInv, Versions
<1>1. CASE UNCHANGED <<serverPc, validRevision, invalidRevision>>
  BY <1>0, <1>1 DEF IInv, ServerInv
<1>2. CASE StartReadValid
  <2>1. disk["valid"] \in Versions /\ Reached(disk["valid"])
    BY <1>2 DEF StartReadValid, IInv, TypeOK, DiskInv, Files, Versions, Reached
  <2>2. QED
    BY <1>0, <1>2, <2>1 DEF StartReadValid, ServerInv
<1>3. CASE StartReadInvalid
  <2>1. disk["fixture"] \in Versions /\ disk["fixture"] <= version
    BY <1>3 DEF StartReadInvalid, IInv, TypeOK, DiskInv, Files, Versions
  <2>2. QED
    BY <1>0, <1>3, <2>1 DEF StartReadInvalid, IInv, ServerInv
<1>4. CASE StartFails \/ Crash
  BY <1>4 DEF StartFails, Crash, ServerInv
<1>5. QED
  BY <1>1, <1>2, <1>3, <1>4 DEF Next, Build, Abort, Remove, Create, Fill,
    PublishInvalid, PublishValid, Handler, AnswerNotModified, Choose, Read,
    Opa, OpaRestart, Poll, Activate, Reject, NotModified, vars, server

\* An answer under way holds a bundle no older than its tag and than the one
\* OPA runs.
LEMMA RequestStepInv ==
  ASSUME IInv, [Next]_vars
  PROVE  RequestInv'
<1> USE BundleAssumption
<1>0. /\ \A v \in Nat : Reached(v) => Reached(v)'
      /\ \A f, v : TagOf(f, v)' = TagOf(f, v)
      /\ \A t, v : TagUpTo(t, v) => TagUpTo(t, v)'
      /\ Versions \subseteq Nat
      /\ body \in Nat
  BY DiskStep, TagsFixed DEF IInv, Versions, TypeOK
<1>1. CASE /\ UNCHANGED <<request, active>>
           /\ serverPc = "up" => serverPc' = "up"
  BY <1>0, <1>1 DEF IInv, RequestInv, request, Accepted
<1>2. CASE Crash
  BY <1>0, <1>2 DEF Crash, IInv, RequestInv, Accepted, opa
<1>3. CASE AnswerNotModified \/ Poll
  BY <1>3 DEF AnswerNotModified, Poll, RequestInv, Accepted
<1>4. CASE Choose
  <2>1. ~invalid => OfferedTag = validRevision /\ OfferedFile = "valid"
    BY DEF OfferedTag, OfferedFile
  <2>2. invalid => OfferedFile # "valid"
    BY DEF OfferedFile
  <2>3. QED
    BY <1>0, <1>4, <2>1, <2>2 DEF Choose, server, IInv, TypeOK, ServerInv,
      RequestInv
<1>5. CASE Read
  <2> SUFFICES ASSUME Accepted'
               PROVE  /\ (body >= active)' /\ (body > 0)' /\ Reached(body)'
                      /\ TagUpTo(reqTag, body)'
    BY <1>5 DEF Read, RequestInv
  <2>1. reqFile = "valid" /\ disk["valid"] > 0 /\ body' = disk["valid"]
    BY <1>5 DEF Read, Accepted, IInv, TypeOK, Files
  <2>2. Reached(disk["valid"]) /\ disk["valid"] \in Nat
    BY DEF IInv, TypeOK, DiskInv, Files, Reached
  <2>3. active <= disk["valid"]
    BY <2>1 DEF IInv, OpaInv, Reached
  <2>4. PICK v \in Versions : reqTag = TagOf("valid", v) /\ Reached(v)
    BY <1>5, <2>1 DEF Read, IInv, RequestInv
  <2>5. v \in 1..disk["valid"]
    BY <2>1, <2>2, <2>4 DEF Reached, Versions
  <2>6. TagUpTo(reqTag, disk["valid"])
    BY <2>4, <2>5 DEF TagUpTo
  <2>7. TagUpTo(reqTag, disk["valid"])'
    BY <1>5, <2>6 DEF Read, script, TagUpTo, TagOf
  <2>8. Reached(disk["valid"])'
    BY <1>5, <2>2 DEF Read, script, Reached
  <2>9. UNCHANGED <<active, disk, reqTag>>
    BY <1>5 DEF Read, opa, script
  <2>10. QED
    BY <2>1, <2>2, <2>3, <2>7, <2>8, <2>9 DEF IInv, TypeOK
<1>6. CASE Activate \/ Reject \/ NotModified \/ OpaRestart
  BY <1>6 DEF Activate, Reject, NotModified, OpaRestart, RequestOver,
    RequestInv
<1>7. QED
  BY <1>1, <1>2, <1>3, <1>4, <1>5, <1>6 DEF Next, Build, Abort, Remove, Create,
    Fill, StartReadValid, StartReadInvalid, StartFails, PublishInvalid,
    PublishValid, Handler, Opa, vars, request, server, opa

\* OPA's bundle was reached, and is at least as new as its tag.
LEMMA OpaStepInv ==
  ASSUME IInv, [Next]_vars
  PROVE  OpaInv'
<1> USE BundleAssumption
<1>0. /\ \A v \in Nat : Reached(v) => Reached(v)'
      /\ \A t, v : TagUpTo(t, v) => TagUpTo(t, v)'
      /\ body \in Nat /\ active \in Nat
  BY DiskStep, TagsFixed DEF IInv, TypeOK
<1>1. CASE UNCHANGED <<active, activeTag>>
  BY <1>0, <1>1 DEF IInv, OpaInv, TagUpTo, Reached
<1>2. CASE Activate
  <2>1. PICK b \in Nat : b = body
    BY <1>0
  <2>2. PICK t : t = reqTag
    OBVIOUS
  <2>3. Reached(b)' /\ TagUpTo(t, b)'
    BY <1>0, <1>2, <2>1, <2>2 DEF Activate, IInv, RequestInv
  <2>4. active' = b /\ activeTag' = t
    BY <1>2, <2>1, <2>2 DEF Activate
  <2>5. QED
    BY <2>3, <2>4 DEF OpaInv, Reached, TagUpTo
<1>3. CASE OpaRestart
  BY <1>3 DEF OpaRestart, script, IInv, TypeOK, OpaInv, Reached, Files
<1>4. QED
  BY <1>1, <1>2, <1>3 DEF Next, Build, Abort, Remove, Create, Fill,
    StartReadValid, StartReadInvalid, StartFails, PublishInvalid, PublishValid,
    Crash, Handler, AnswerNotModified, Choose, Read, Opa, Poll, Reject,
    NotModified, vars, opa

\* The inductive invariant: revisions never run ahead of the bundles they are
\* served with.
THEOREM Inductive == Spec => []IInv
<1>1. IInv /\ [Next]_vars => IInv'
  BY TypeStep, DiskStep, ServerStepInv, RequestStepInv, OpaStepInv DEF IInv
<1>2. QED
  BY InitInv, <1>1, PTL DEF Spec

\* A tag that two runs up to a bundle share is a reused revision.
LEMMA SameTagSameRun ==
  ASSUME NEW u \in 1..version, NEW d, d = disk["valid"],
         TagOf("valid", u) = TagOf("valid", d), ~Reused
  PROVE  u = d
  BY DEF TagOf, Reused

\* bundle's 304, answered without looking at the file, is about the bundle on
\* disk unless that file was replaced under the server or a revision reused.
THEOREM UnchangedIsCurrent == Spec => []NotModifiedIsCurrent
<1>1. IInv => NotModifiedIsCurrent
  <2> SUFFICES ASSUME IInv, serverPc = "up", activeTag # NoTag,
                      activeTag = OfferedTag
               PROVE  /\ invalid => Shadowed
                      /\ ~invalid /\ disk["valid"] > 0 /\ ~Stale /\ ~Reused =>
                           active = disk["valid"]
    BY DEF NotModifiedIsCurrent
  <2>1. PICK u \in 1..active : activeTag = TagOf("valid", u)
    BY DEF IInv, OpaInv, TagUpTo
  <2>2. ASSUME invalid PROVE Shadowed
    <3>1. PICK v \in Versions :
            invalidRevision = TagOf("fixture", v) /\ v <= version
      BY DEF IInv, ServerInv
    <3>2. revisionOf[u] = Untrusted[revisionOf[v]]
      BY <2>1, <2>2, <3>1 DEF OfferedTag, TagOf
    <3>3. u \in 1..version /\ v \in 1..version
      BY <3>1, BundleAssumption DEF IInv, TypeOK, OpaInv, Reached, Versions
    <3>4. QED
      BY <3>2, <3>3 DEF Shadowed
  <2>3. ASSUME ~invalid, disk["valid"] > 0, ~Stale, ~Reused
        PROVE  active = disk["valid"]
    <3>1. active \in Nat /\ version \in Nat /\ disk["valid"] \in Nat
      BY BundleAssumption DEF IInv, TypeOK, Files
    <3>2. active <= disk["valid"] /\ active <= version
      BY <2>3 DEF IInv, OpaInv, Reached
    <3>3. TagOf("valid", u) = TagOf("valid", disk["valid"])
      BY <2>1, <2>3 DEF OfferedTag, Stale
    <3>4. u = disk["valid"]
      BY <2>3, <3>1, <3>2, <3>3, SameTagSameRun
    <3>5. QED
      BY <3>1, <3>2, <3>4
  <2>4. QED
    BY <2>2, <2>3
<1>2. QED
  BY Inductive, <1>1, PTL

\* The last good bundle is kept: only a later run's bundle, or OPA's own
\* restart, takes its place.
THEOREM LastGoodKept == Spec => NeverOlder
<1>1. IInv /\ [Next]_vars => [active' >= active \/ OpaRestart]_vars
  <2> SUFFICES ASSUME IInv, Next PROVE active' >= active \/ OpaRestart
    OBVIOUS
  <2>1. active \in Int
    BY BundleAssumption DEF IInv, TypeOK
  <2>2. CASE Activate
    BY <2>2 DEF Activate, IInv, RequestInv
  <2>3. CASE active' = active
    BY <2>1, <2>3
  <2>4. QED
    BY <2>2, <2>3 DEF Next, Build, Abort, Remove, Create, Fill,
      StartReadValid, StartReadInvalid, StartFails, PublishInvalid,
      PublishValid, Crash, Handler, AnswerNotModified, Choose, Read, Opa, Poll,
      Reject, NotModified, opa
<1>2. QED
  BY Inductive, <1>1, PTL DEF Spec, NeverOlder

=============================================================================
