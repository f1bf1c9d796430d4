------------------------- MODULE KnowledgeBaseProofs -------------------------
(* Type correctness of KnowledgeBase; a deletion counts every document but  *)
(* the ones uploaded while it runs; nothing cleans up a living base, unless *)
(* a failed deletion revived it.                                            *)
EXTENDS KnowledgeBase, TLAPS

\* What a deletion that has counted, and has neither failed nor ended, knows.
CountInv ==
    \A d \in Deletes : pc[d] \in {"send", "local", "commit", "clean"} =>
        \A u \in Uploads : docs[u] = "live" => u \in late

\* Nothing that ends in a clean-up is under way for a living base.
CleanInv ==
    base = "live" /\ ~revived =>
        \A d \in Deletes : /\ msg[d] # "ready" /\ cleanup[d] = "none"
                           /\ pc[d] \notin {"commit", "clean"}

------------------------------------------------------------------------------
(* Type correctness.                                                        *)

\* A request takes one step and leaves the other requests where they are.
LEMMA StepTyped ==
    ASSUME TypeOK, NEW r \in Uploads \cup Deletes, NEW from, NEW to \in Steps,
           Step(r, from, to)
    PROVE  /\ pc' \in [Uploads \cup Deletes -> Steps] /\ pc'[r] = to
           /\ \A o \in Uploads \cup Deletes : o # r => pc'[o] = pc[o]
  BY DEF Step, TypeOK

LEMMA UploadTyped ==
    ASSUME TypeOK, NEW u \in Uploads, Upload(u)
    PROVE  TypeOK'
<1>1. PICK from, to \in Steps : Step(u, from, to)
  <2>1. CASE Look(u) \/ Insert(u) \/ Put(u) \/ Process(u) \/ Persist(u) \/ Index(u)
    BY <2>1 DEF Look, Insert, Put, Process, Persist, Index, Steps
  <2>2. CASE DeleteDocument(u) \/ DeleteVectors(u) \/ DeleteFile(u)
    BY <2>2 DEF DeleteDocument, DeleteVectors, DeleteFile, Steps
  <2> QED BY <2>1, <2>2 DEF Upload
<1>2. pc' \in [Uploads \cup Deletes -> Steps]
  BY <1>1, StepTyped
<1>3. UNCHANGED <<queued, base, msg, attempts, cleanup, failed, revived>>
  BY DEF Upload, Look, Insert, Put, Process, Persist, Index, DeleteDocument,
         DeleteVectors, DeleteFile, Document, message, cleaning
<1>4. docs' \in [Uploads -> {"none", "live", "gone"}] /\ late' \subseteq Uploads
  BY DEF Upload, Look, Insert, Put, Process, Persist, Index, DeleteDocument,
         DeleteVectors, DeleteFile, TypeOK
<1>5. /\ files' \subseteq Uploads /\ vectors' \subseteq Uploads
  BY DEF Upload, Look, Insert, Put, Process, Persist, Index, DeleteDocument,
         DeleteVectors, DeleteFile, TypeOK, space
<1>6. faults' \subseteq Faults
  BY DEF Upload, Look, Insert, Put, Process, Persist, Index, DeleteDocument,
         DeleteVectors, DeleteFile, TypeOK, Sound, Fault
<1> QED BY <1>2, <1>3, <1>4, <1>5, <1>6 DEF TypeOK

LEMMA DeleteTyped ==
    ASSUME TypeOK, NEW d \in Deletes, Delete(d)
    PROVE  TypeOK'
<1>1. PICK from, to \in Steps : Step(d, from, to)
  BY DEF Delete, Find, Count, Send, SoftDelete, Commit, Restore, Steps
<1>2. pc' \in [Uploads \cup Deletes -> Steps]
  BY <1>1, StepTyped
<1>3. UNCHANGED <<queued, docs, files, vectors, attempts, failed, late>>
  BY DEF Delete, Find, Count, Send, SoftDelete, Commit, Restore, Deletion, space
<1>4. base' \in {"live", "deleted"} /\ revived' \in BOOLEAN
  BY DEF Delete, Find, Count, Send, SoftDelete, Commit, Restore, TypeOK
<1>5. msg' \in [Deletes -> {"none", "half", "ready", "over"}]
  BY DEF Delete, Find, Count, Send, SoftDelete, Commit, Restore, TypeOK
<1>6. cleanup' \in [Deletes -> {"none", "vectors", "files"}]
  BY DEF Delete, Find, Count, Send, SoftDelete, Commit, Restore, TypeOK
<1>7. faults' \subseteq Faults
  BY DEF Delete, Find, Count, Send, SoftDelete, Commit, Restore, Sound, Fault,
         TypeOK
<1> QED BY <1>2, <1>3, <1>4, <1>5, <1>6, <1>7 DEF TypeOK

LEMMA ConsumeTyped ==
    ASSUME TypeOK, NEW d \in Deletes, Consume(d)
    PROVE  TypeOK'
<1>1. CASE CheckBack(d)
  BY <1>1 DEF CheckBack, Answer, TypeOK, space, cleaning
<1>2. CASE Deliver(d)
  <2>1. attempts' \in [Deletes -> 0 .. MaxAttempts]
    BY <1>2, BaseAssumption DEF Deliver, TypeOK
  <2> QED BY <1>2, <2>1 DEF Deliver, TypeOK, space
<1>3. CASE DropVectors(d)
  BY <1>3 DEF DropVectors, Cleanup, Sound, Fault, TypeOK
<1>4. CASE DeleteKnowledgeSpace(d)
  <2>1. PICK ok \in BOOLEAN : End(d, ok)
    BY <1>4 DEF DeleteKnowledgeSpace
  <2>2. /\ pc' \in [Uploads \cup Deletes -> Steps]
        /\ msg' \in [Deletes -> {"none", "half", "ready", "over"}]
        /\ cleanup' \in [Deletes -> {"none", "vectors", "files"}]
    BY <2>1 DEF End, Steps, TypeOK
  <2> QED BY <1>4, <2>2 DEF DeleteKnowledgeSpace, Cleanup, Sound, Fault, TypeOK
<1> QED BY <1>1, <1>2, <1>3, <1>4 DEF Consume

LEMMA CrashTyped ==
    ASSUME TypeOK, NEW R \in SUBSET (Uploads \cup Deletes), NEW D \in SUBSET Deletes,
           Crash(R, D)
    PROVE  TypeOK'
  BY DEF Crash, Fault, Steps, TypeOK, space, message

\* The variables keep their types, and no message is delivered too often.
THEOREM TypeCorrect == Spec => []TypeOK
<1>1. Init => TypeOK
  <2>1. Init => pc \in [Uploads \cup Deletes -> Steps]
    BY DEF Init, Steps
  <2>2. 0 \in 0 .. MaxAttempts
    BY BaseAssumption
  <2> QED BY <2>1, <2>2 DEF Init, TypeOK
<1>2. TypeOK /\ [Next]_vars => TypeOK'
  <2>1. TypeOK /\ UNCHANGED vars => TypeOK'
    BY DEF TypeOK, vars, space, message, cleaning
  <2> QED BY <2>1, UploadTyped, DeleteTyped, ConsumeTyped, CrashTyped DEF Next
<1> QED BY <1>1, <1>2, PTL DEF Spec

------------------------------------------------------------------------------
(* No document is forgotten by a deletion.                                  *)

\* What an upload does to the rows, and to the deletions.
LEMMA UploadCounted ==
    ASSUME TypeOK, NEW u \in Uploads, Upload(u)
    PROVE  /\ base' = base /\ \A d \in Deletes : pc'[d] = pc[d]
           /\ \A w \in Uploads : docs'[w] = "live" =>
                  (docs[w] = "live" /\ w \in late => w \in late')
           /\ \A w \in Uploads : docs'[w] = "live" /\ docs[w] # "live" =>
                  (Counted => w \in late')
<1>1. base' = base /\ \A d \in Deletes : pc'[d] = pc[d]
  BY BaseAssumption DEF TypeOK, Upload, Look, Insert, Put, Process, Persist, Index,
     DeleteDocument, DeleteVectors, DeleteFile, Step, Document
<1>2. \A w \in Uploads : w \in late => w \in late'
  BY DEF Upload, Look, Insert, Put, Process, Persist, Index, DeleteDocument,
         DeleteVectors, DeleteFile
<1>3. \A w \in Uploads : docs'[w] = "live" /\ docs[w] # "live" =>
                              (Counted => w \in late')
  BY DEF TypeOK, Upload, Look, Insert, Put, Process, Persist, Index, DeleteDocument,
         DeleteVectors, DeleteFile
<1> QED BY <1>1, <1>2, <1>3

LEMMA CountStep ==
    ASSUME TypeOK, CountInv, NoOrphans, [Next]_vars
    PROVE  CountInv' /\ NoOrphans'
<1>1. CASE UNCHANGED vars
  BY <1>1 DEF CountInv, NoOrphans, vars
<1>2. ASSUME NEW u \in Uploads, Upload(u)
      PROVE  CountInv' /\ NoOrphans'
  BY <1>2, UploadCounted DEF CountInv, NoOrphans, Counted
<1>3. ASSUME NEW d \in Deletes, Delete(d)
      PROVE  CountInv' /\ NoOrphans'
  <2>1. UNCHANGED <<docs, late>> /\ \A o \in Deletes : o # d => pc'[o] = pc[o]
    BY <1>3 DEF Delete, Find, Count, Send, SoftDelete, Commit, Restore, Deletion, Step,
                TypeOK
  <2>2. pc'[d] \in {"send", "local", "commit", "clean"} =>
            \A u \in Uploads : docs[u] = "live" => u \in late
    BY <1>3 DEF Delete, Find, Count, Send, SoftDelete, Commit, Restore, Step, TypeOK,
                CountInv
  <2>3. base' = "deleted" => base = "deleted" \/ pc[d] = "local"
    BY <1>3 DEF Delete, Find, Count, Send, SoftDelete, Commit, Restore, Step, TypeOK
  <2> QED BY <2>1, <2>2, <2>3 DEF CountInv, NoOrphans
<1>4. ASSUME NEW d \in Deletes, Consume(d)
      PROVE  CountInv' /\ NoOrphans'
  <2>1. /\ UNCHANGED <<docs, late, base>>
        /\ \A o \in Deletes : pc'[o] = pc[o] \/ pc'[o] = "done"
    BY <1>4 DEF Consume, CheckBack, Answer, Deliver, DropVectors, DeleteKnowledgeSpace,
                End, Cleanup, TypeOK
  <2> QED BY <2>1 DEF CountInv, NoOrphans
<1>5. ASSUME NEW R \in SUBSET (Uploads \cup Deletes), NEW D \in SUBSET Deletes,
             Crash(R, D)
      PROVE  CountInv' /\ NoOrphans'
  BY <1>5 DEF Crash, CountInv, NoOrphans
<1> QED BY <1>1, <1>2, <1>3, <1>4, <1>5 DEF Next

\* A document of a deleted base was uploaded while the base was being deleted:
\* whatever the order of the uploads, deletions, crashes and failures.
THEOREM NoDocumentIsOrphaned == Spec => []NoOrphans
<1>1. Init => CountInv /\ NoOrphans
  BY BaseAssumption DEF Init, CountInv, NoOrphans
<1>2. TypeOK /\ CountInv /\ NoOrphans /\ [Next]_vars => CountInv' /\ NoOrphans'
  BY CountStep
<1> QED BY <1>1, <1>2, TypeCorrect, PTL DEF Spec

------------------------------------------------------------------------------
(* Nothing cleans up a living base.                                         *)

LEMMA CleanStep ==
    ASSUME TypeOK, CleanInv, [Next]_vars
    PROVE  CleanInv'
<1>1. CASE UNCHANGED vars
  BY <1>1 DEF CleanInv, vars, message, cleaning
<1>2. ASSUME NEW u \in Uploads, Upload(u)
      PROVE  CleanInv'
  <2>1. UNCHANGED <<msg, cleanup, revived>>
    BY <1>2 DEF Upload, Look, Insert, Put, Process, Persist, Index, DeleteDocument,
                DeleteVectors, DeleteFile, Document, message, cleaning
  <2> QED BY <1>2, <2>1, UploadCounted DEF CleanInv
<1>3. ASSUME NEW d \in Deletes, Delete(d)
      PROVE  CleanInv'
  <2>1. CASE Find(d) \/ Count(d) \/ Send(d)
    BY <2>1 DEF Find, Count, Send, Step, TypeOK, CleanInv
  <2>2. CASE SoftDelete(d)
    BY <2>2 DEF SoftDelete, Step, TypeOK, CleanInv
  <2>3. CASE Commit(d)
    BY <2>3 DEF Commit, Step, TypeOK, CleanInv
  <2>4. CASE Restore(d)
    <3>1. base' = "live" /\ ~revived' => base = "live" /\ ~revived
      <4>1. CASE base' = "live" /\ revived' = (revived \/ base = "deleted")
        <5>1. base \in {"live", "deleted"}
          BY DEF TypeOK
        <5> QED BY <4>1, <5>1, Zenon
      <4>2. CASE UNCHANGED <<base, revived>>
        BY <4>2
      <4> QED BY <2>4, <4>1, <4>2 DEF Restore
    <3>2. /\ UNCHANGED <<msg, cleanup>>
          /\ \A o \in Deletes : pc'[o] \in {pc[o], "done"}
      BY <2>4 DEF Restore, Step, TypeOK
    <3> QED BY <3>1, <3>2 DEF CleanInv
  <2> QED BY <1>3, <2>1, <2>2, <2>3, <2>4 DEF Delete
<1>4. ASSUME NEW d \in Deletes, Consume(d)
      PROVE  CleanInv'
  <2>1. CASE CheckBack(d)
    BY <2>1 DEF CheckBack, Answer, cleaning, TypeOK, CleanInv
  <2>2. CASE Deliver(d)
    BY <2>2 DEF Deliver, TypeOK, CleanInv
  <2>3. CASE DropVectors(d)
    BY <2>3 DEF DropVectors, Cleanup, TypeOK, CleanInv
  <2>4. CASE DeleteKnowledgeSpace(d)
    BY <2>4 DEF DeleteKnowledgeSpace, Cleanup, End, TypeOK, CleanInv
  <2> QED BY <1>4, <2>1, <2>2, <2>3, <2>4 DEF Consume
<1>5. ASSUME NEW R \in SUBSET (Uploads \cup Deletes), NEW D \in SUBSET Deletes,
             Crash(R, D)
      PROVE  CleanInv'
  BY <1>5 DEF Crash, CleanInv, message, TypeOK
<1> QED BY <1>1, <1>2, <1>3, <1>4, <1>5 DEF Next

\* What the whole of a document is made of.
Whole(u) ==
    docs[u] = "live" =>
        /\ pc[u] \in {"uploaded", "persist", "index", "chunked"} => u \in files
        /\ pc[u] = "chunked" => u \in vectors

\* An upload leaves the other documents whole, and its own.
LEMMA UploadWhole ==
    ASSUME TypeOK, NEW u \in Uploads, Upload(u), NEW w \in Uploads, Whole(w)
    PROVE  Whole(w)'
<1>1. CASE w # u
  <2>1. /\ pc'[w] = pc[w] /\ docs'[w] = docs[w]
        /\ w \in files' <=> w \in files
        /\ w \in vectors' <=> w \in vectors
    BY <1>1 DEF Upload, Look, Insert, Put, Process, Persist, Index, DeleteDocument,
                DeleteVectors, DeleteFile, Step, space, TypeOK
  <2> QED BY <2>1 DEF Whole
<1>2. CASE w = u
  <2>1. CASE Look(u) \/ Insert(u)
    BY <1>2, <2>1 DEF Look, Insert, Step, TypeOK, Whole
  <2>2. CASE Put(u)
    BY <1>2, <2>2 DEF Put, Step, TypeOK, Whole
  <2>3. CASE Process(u) \/ Persist(u) \/ Index(u)
    BY <1>2, <2>3 DEF Process, Persist, Index, Step, space, TypeOK, Whole
  <2>4. CASE DeleteDocument(u) \/ DeleteVectors(u) \/ DeleteFile(u)
    BY <1>2, <2>4 DEF DeleteDocument, DeleteVectors, DeleteFile, Step, space, TypeOK,
                      Whole
  <2> QED BY <2>1, <2>2, <2>3, <2>4 DEF Upload
<1> QED BY <1>1, <1>2

LEMMA WholeStep ==
    ASSUME TypeOK, CleanInv, LiveIsWhole, [Next]_vars
    PROVE  LiveIsWhole'
<1> SUFFICES ASSUME base' = "live", ~revived', NEW w \in Uploads
             PROVE  Whole(w)'
  BY DEF LiveIsWhole, Whole
<1>1. base = "live" /\ ~revived
  BY DEF Next, Upload, Look, Insert, Put, Process, Persist, Index, DeleteDocument,
         DeleteVectors, DeleteFile, Document, Delete, Find, Count, Send, SoftDelete,
         Commit, Restore, Consume, CheckBack, Answer, Deliver, DropVectors,
         DeleteKnowledgeSpace, Cleanup, Crash, vars, TypeOK
<1>2. Whole(w) /\ \A d \in Deletes : cleanup[d] = "none"
  BY <1>1 DEF LiveIsWhole, Whole, CleanInv
<1>3. CASE UNCHANGED vars
  BY <1>2, <1>3 DEF Whole, vars, space
<1>4. ASSUME NEW u \in Uploads, Upload(u)
      PROVE  Whole(w)'
  BY <1>2, <1>4, UploadWhole
<1>5. ASSUME NEW d \in Deletes, Delete(d) \/ Consume(d)
      PROVE  Whole(w)'
  <2>1. CASE Delete(d)
    BY <1>2, <2>1, BaseAssumption DEF Delete, Find, Count, Send, SoftDelete, Commit,
       Restore, Deletion, Step, space, TypeOK, Whole
  <2>2. CASE CheckBack(d) \/ Deliver(d)
    BY <1>2, <2>2 DEF CheckBack, Answer, Deliver, space, Whole
  <2>3. CASE DropVectors(d) \/ DeleteKnowledgeSpace(d)
    BY <1>2, <2>3 DEF DropVectors, DeleteKnowledgeSpace
  <2> QED BY <1>5, <2>1, <2>2, <2>3 DEF Consume
<1>6. ASSUME NEW R \in SUBSET (Uploads \cup Deletes), NEW D \in SUBSET Deletes,
             Crash(R, D)
      PROVE  Whole(w)'
  BY <1>2, <1>6 DEF Crash, space, Whole
<1> QED BY <1>3, <1>4, <1>5, <1>6 DEF Next

\* A living base that no failed deletion revived keeps the files and vectors of
\* its documents: the broker's questions, second deliveries, crashes and the
\* deletions that give up never clean it up.
THEOREM LivingBaseIsWhole == Spec => []LiveIsWhole
<1>1. Init => CleanInv /\ LiveIsWhole
  BY BaseAssumption DEF Init, CleanInv, LiveIsWhole
<1>2. TypeOK /\ CleanInv /\ [Next]_vars => CleanInv'
  BY CleanStep
<1>3. TypeOK /\ CleanInv /\ LiveIsWhole /\ [Next]_vars => LiveIsWhole'
  BY WholeStep
<1> QED BY <1>1, <1>2, <1>3, TypeCorrect, PTL DEF Spec
=============================================================================
