--------------------------- MODULE Tracker_proofs ---------------------------
(* Proofs of the invariants of Tracker. *)
EXTENDS Tracker, TLAPS

(* A request that runs has its posting and, once it created one, its       *)
(* application; one that is idle has neither.                              *)
RunningOnes ==
    /\ \A c \in Clicks :
          /\ clicks[c].step = "idle" <=> clicks[c] = IdleClick
          /\ clicks[c].step = "idle" <=> clicks[c].posting = None
          /\ clicks[c].step = "created" => clicks[c].app \in Apps
    /\ \A q \in Requests : requests[q].step = "found" =>
          requests[q].app \in Apps /\ requests[q].lead \in LeadIds

(* On a posting where nothing slipped one Track runs at a time, it finds   *)
(* the posting unlinked, and every application made from the posting is    *)
(* linked or about to be.                                                  *)
Unslipped ==
    \A p \in Postings \ slipped :
       /\ \A c, d \in Clicks : clicks[c].posting = p /\ clicks[d].posting = p => c = d
       /\ \A c \in Clicks : clicks[c].posting = p => tracked[p] = None
       /\ \A a \in MadeFrom(p) :
             \/ tracked[p] = a
             \/ \E c \in Clicks : clicks[c].posting = p /\ clicks[c].step = "created"
                                  /\ clicks[c].app = a

IInv == TypeOK /\ RunningOnes /\ NothingDangles /\ Unslipped

(* Initially the invariant holds. *)
LEMMA InitIInv == Init => IInv
  <1> SUFFICES ASSUME Init PROVE IInv
    OBVIOUS
  <1> USE TrackerAssumption DEF Init
  <1>1. TypeOK
    BY DEF TypeOK, IdleClick, IdleRequest
  <1>2. RunningOnes
    BY DEF RunningOnes, IdleClick, IdleRequest
  <1>3. NothingDangles
    BY DEF NothingDangles
  <1>4. Unslipped
    BY DEF Unslipped, MadeFrom, IdleClick
  <1> QED
    BY <1>1, <1>2, <1>3, <1>4 DEF IInv

(* Deleting an application keeps the invariant. *)
LEMMA DeleteApplicationKeeps ==
    ASSUME IInv, NEW id \in Apps, DeleteApplication(id) PROVE IInv'
  <1> USE TrackerAssumption DEF DeleteApplication, IInv, Without
  <1>1. TypeOK'
    BY DEF TypeOK
  <1>2. RunningOnes'
    BY DEF RunningOnes, TypeOK
  <1>3. NothingDangles'
    BY DEF NothingDangles, TypeOK
  <1>4. Unslipped'
    BY DEF Unslipped, MadeFrom, TypeOK
  <1> QED
    BY <1>1, <1>2, <1>3, <1>4

(* A Track that stamps its posting keeps the invariant. *)
LEMMA StampPostingKeeps ==
    ASSUME IInv, NEW c \in Clicks, StampPosting(c) PROVE IInv'
  <1> USE TrackerAssumption DEF StampPosting, IInv, IdleClick
  <1> DEFINE p == clicks[c].posting
             a == clicks[c].app
  <1>1. p \in Postings /\ a \in Apps
    BY DEF TypeOK, RunningOnes
  <1>2. TypeOK'
    BY <1>1 DEF TypeOK
  <1>3. RunningOnes'
    BY DEF RunningOnes, TypeOK
  <1>4. NothingDangles'
    BY <1>1 DEF NothingDangles, TypeOK
  <1>5. ASSUME NEW r \in Postings \ slipped
        PROVE  /\ \A d, e \in Clicks : clicks'[d].posting = r /\ clicks'[e].posting = r => d = e
               /\ \A d \in Clicks : clicks'[d].posting = r => tracked'[r] = None
    BY <1>1, <1>5 DEF Unslipped, TypeOK
  <1>6. ASSUME NEW r \in Postings \ slipped, NEW b \in MadeFrom(r)
        PROVE  \/ tracked'[r] = b
               \/ \E d \in Clicks : clicks'[d].posting = r /\ clicks'[d].step = "created"
                                    /\ clicks'[d].app = b
    <2>1. CASE r = p
      <3>1. tracked[p] = None
        BY <1>6, <2>1 DEF Unslipped
      <3>2. b = a
        BY <1>1, <1>6, <2>1, <3>1 DEF Unslipped, MadeFrom, TypeOK
      <3> QED
        BY <1>1, <1>6, <2>1, <3>2 DEF MadeFrom, TypeOK
    <2>2. CASE r # p
      BY <1>1, <1>6, <2>2 DEF Unslipped, TypeOK
    <2> QED
      BY <2>1, <2>2
  <1>7. Unslipped'
    BY <1>5, <1>6 DEF Unslipped, MadeFrom
  <1> QED
    BY <1>2, <1>3, <1>4, <1>7

(* The other steps of a Track keep the invariant. *)
LEMMA TrackKeeps ==
    ASSUME IInv, NEW c \in Clicks,
           \/ \E p \in Postings : ReadPosting(c, p)
           \/ \E id \in Apps : CreateFromPosting(c, id)
           \/ TrackDies(c)
    PROVE  IInv'
  <1> USE TrackerAssumption DEF IInv, IdleClick
  <1>1. ASSUME NEW p \in Postings, ReadPosting(c, p) PROVE IInv'
    <2> USE <1>1 DEF ReadPosting, Busy
    <2>1. TypeOK'
      BY DEF TypeOK
    <2>2. RunningOnes'
      BY DEF RunningOnes, TypeOK
    <2>3. NothingDangles'
      BY DEF NothingDangles
    <2>4. Unslipped'
      BY DEF Unslipped, MadeFrom, TypeOK
    <2> QED
      BY <2>1, <2>2, <2>3, <2>4
  <1>2. ASSUME NEW id \in Apps, CreateFromPosting(c, id) PROVE IInv'
    <2> USE <1>2 DEF CreateFromPosting, NewApp, With
    <2>1. clicks[c].posting \in Postings
      BY DEF RunningOnes, TypeOK
    <2> DEFINE p == clicks[c].posting
               run == [step |-> "created", posting |-> p, app |-> id]
    <2>a. clicks' = [clicks EXCEPT ![c] = run]
      OBVIOUS
    <2>b. /\ apps' \in [DOMAIN apps \cup {id} -> Postings \cup {None}]
          /\ apps'[id] = p
          /\ \A x \in DOMAIN apps : apps'[x] = apps[x]
      BY <2>1 DEF TypeOK
    <2>c. /\ UNCHANGED <<leads, links, tracked, requests, rows, slipped>>
          /\ used' = used \cup {id} /\ id \notin used /\ clicks[c].step = "read"
      OBVIOUS
    <2> HIDE <1>2 DEF run, CreateFromPosting, NewApp, With
    <2>2. TypeOK'
      BY <2>1, <2>a, <2>b, <2>c DEF TypeOK, run
    <2>3. RunningOnes'
      BY <2>1, <2>a, <2>c DEF RunningOnes, TypeOK, run
    <2>4. NothingDangles'
      BY <2>b, <2>c DEF NothingDangles
    <2>5. Unslipped'
      <3> SUFFICES ASSUME NEW r \in Postings \ slipped
                   PROVE  /\ \A d, e \in Clicks :
                                clicks'[d].posting = r /\ clicks'[e].posting = r => d = e
                          /\ \A d \in Clicks : clicks'[d].posting = r => tracked'[r] = None
                          /\ \A b \in MadeFrom(r)' :
                                \/ tracked'[r] = b
                                \/ \E d \in Clicks : clicks'[d].posting = r
                                      /\ clicks'[d].step = "created" /\ clicks'[d].app = b
        BY <2>c DEF Unslipped
      <3>1. \A d \in Clicks : clicks'[d].posting = clicks[d].posting
        BY <2>a DEF TypeOK, run
      <3>2. ASSUME NEW b \in MadeFrom(r)'
            PROVE  \/ tracked'[r] = b
                   \/ \E d \in Clicks : clicks'[d].posting = r
                         /\ clicks'[d].step = "created" /\ clicks'[d].app = b
        <4>1. CASE b = id
          BY <4>1, <3>2, <2>a, <2>b DEF MadeFrom, TypeOK, run
        <4>2. CASE b # id
          <5>1. b \in MadeFrom(r)
            BY <4>2, <3>2, <2>b DEF MadeFrom
          <5>2. CASE tracked[r] = b
            BY <5>2, <2>c
          <5>3. ASSUME NEW d \in Clicks, clicks[d].posting = r,
                       clicks[d].step = "created", clicks[d].app = b
                PROVE  clicks'[d] = clicks[d]
            BY <5>3, <2>a, <2>c DEF TypeOK
          <5> QED
            BY <5>1, <5>2, <5>3 DEF Unslipped
        <4> QED
          BY <4>1, <4>2
      <3> QED
        BY <3>1, <3>2, <2>c DEF Unslipped
    <2> QED
      BY <2>2, <2>3, <2>4, <2>5
  <1>3. ASSUME TrackDies(c) PROVE IInv'
    <2> USE <1>3 DEF TrackDies
    <2>1. TypeOK'
      BY DEF TypeOK, RunningOnes
    <2>2. RunningOnes'
      BY DEF RunningOnes, TypeOK
    <2>3. NothingDangles'
      BY DEF NothingDangles
    <2>4. Unslipped'
      BY DEF Unslipped, MadeFrom, TypeOK
    <2> QED
      BY <2>1, <2>2, <2>3, <2>4
  <1> QED
    BY <1>1, <1>2, <1>3

(* An application entered by hand keeps the invariant. *)
LEMMA InsertApplicationKeeps ==
    ASSUME IInv, NEW id \in Apps, InsertApplication(id) PROVE IInv'
  <1> USE TrackerAssumption DEF IInv, InsertApplication, NewApp, With
  <1>1. TypeOK'
    BY DEF TypeOK
  <1>2. RunningOnes'
    BY DEF RunningOnes
  <1>3. NothingDangles'
    BY DEF NothingDangles
  <1>4. Unslipped'
    BY DEF Unslipped, MadeFrom, TypeOK
  <1> QED
    BY <1>1, <1>2, <1>3, <1>4

(* What happens to leads, rows and links keeps the invariant. *)
LEMMA LeadAndLinkKeeps ==
    ASSUME IInv, LeadStep \/ LinkStep PROVE IInv'
  <1> USE TrackerAssumption DEF IInv
  <1>1. UNCHANGED <<apps, tracked, clicks, slipped>>
    BY DEF LeadStep, LinkStep, InsertLead, PatchMail, PatchReplied, LeadKeeps, ClickDelete,
           GraceEnds, Undo, DeleteLead, DropLead, DeleteFails, LookUpLead, LinkLead, UnlinkLead
  <1>2. Unslipped'
    BY <1>1 DEF Unslipped, MadeFrom
  <1>3. ASSUME NEW id \in LeadIds,
               \/ \E m \in Mails \cup {NoMail} : PatchMail(id, m) \/ InsertLead(id, m, FALSE)
               \/ \E b \in BOOLEAN : PatchReplied(id, b)
        PROVE  TypeOK' /\ RunningOnes' /\ NothingDangles'
    <2> DEFINE Grown ==
          /\ leads' \in [DOMAIN leads' -> Rows] /\ DOMAIN leads \subseteq DOMAIN leads'
          /\ DOMAIN leads' \subseteq used' \cap LeadIds /\ used' \subseteq Apps \cup LeadIds
          /\ used \subseteq used'
    <2>1. Grown
      <3>1. ASSUME NEW m \in Mails \cup {NoMail}, PatchMail(id, m) PROVE Grown
        BY <3>1 DEF PatchMail, TypeOK, Rows
      <3>2. ASSUME NEW m \in Mails \cup {NoMail}, InsertLead(id, m, FALSE) PROVE Grown
        BY <3>2 DEF InsertLead, With, TypeOK, Rows
      <3>3. ASSUME NEW b \in BOOLEAN, PatchReplied(id, b) PROVE Grown
        BY <3>3 DEF PatchReplied, TypeOK, Rows
      <3> QED
        BY <3>1, <3>2, <3>3, <1>3
    <2>2. LeadKeeps
      BY <1>3 DEF PatchMail, InsertLead, PatchReplied
    <2>3. TypeOK'
      BY <2>1, <2>2 DEF TypeOK, LeadKeeps
    <2> QED
      BY <2>1, <2>2, <2>3 DEF LeadKeeps, RunningOnes, NothingDangles
  <1>4. ASSUME NEW id \in LeadIds,
               ClickDelete(id) \/ GraceEnds(id) \/ Undo(id) \/ DeleteFails(id)
        PROVE  TypeOK' /\ RunningOnes' /\ NothingDangles'
    <2> USE <1>4 DEF ClickDelete, GraceEnds, Undo, DeleteFails
    <2>1. TypeOK'
      BY DEF TypeOK
    <2>2. RunningOnes' /\ NothingDangles'
      BY DEF RunningOnes, NothingDangles
    <2> QED
      BY <2>1, <2>2
  <1>5. ASSUME NEW id \in LeadIds, DeleteLead(id)
        PROVE  TypeOK' /\ RunningOnes' /\ NothingDangles'
    BY <1>5 DEF DeleteLead, DropLead, Without, TypeOK, RunningOnes, NothingDangles
  <1>6. ASSUME LinkStep
        PROVE  TypeOK' /\ RunningOnes' /\ NothingDangles'
    <2>1. TypeOK'
      BY <1>6 DEF LinkStep, LinkLead, LookUpLead, UnlinkLead, TypeOK, RunningOnes, IdleRequest
    <2>2. RunningOnes'
      BY <1>6 DEF LinkStep, LinkLead, LookUpLead, UnlinkLead, TypeOK, RunningOnes, IdleRequest
    <2>3. NothingDangles'
      BY <1>6 DEF LinkStep, LinkLead, LookUpLead, UnlinkLead, NothingDangles
    <2> QED
      BY <2>1, <2>2, <2>3
  <1> QED
    BY <1>2, <1>3, <1>4, <1>5, <1>6 DEF LeadStep

(* Every step keeps the invariant. *)
LEMMA NextIInv == IInv /\ [Next]_vars => IInv'
  <1> SUFFICES ASSUME IInv, [Next]_vars PROVE IInv'
    OBVIOUS
  <1>1. CASE AppStep
    BY <1>1, DeleteApplicationKeeps, InsertApplicationKeeps DEF AppStep
  <1>2. CASE TrackStep
    BY <1>2, StampPostingKeeps, TrackKeeps DEF TrackStep
  <1>3. CASE LeadStep \/ LinkStep
    BY <1>3, LeadAndLinkKeeps
  <1>4. CASE UNCHANGED vars
    BY <1>4 DEF vars, IInv, TypeOK, RunningOnes, NothingDangles, Unslipped, MadeFrom
  <1> QED
    BY <1>1, <1>2, <1>3, <1>4 DEF Next

(* The invariant holds throughout. *)
THEOREM Invariance == Spec => []IInv
  BY InitIInv, NextIInv, PTL DEF Spec

(* Every variable keeps its type, ids are drawn once. *)
THEOREM TypeCorrect == Spec => []TypeOK
  <1>1. IInv => TypeOK
    BY DEF IInv
  <1> QED
    BY <1>1, Invariance, PTL

(* No link and no posting points at a row that is gone. *)
THEOREM LinksHold == Spec => []NothingDangles
  <1>1. IInv => NothingDangles
    BY DEF IInv
  <1> QED
    BY <1>1, Invariance, PTL

(* A posting whose Tracks neither overlap nor are cut off has one          *)
(* application at most, for any number of requests, postings and deletes.  *)
THEOREM TrackedOnce == Spec => []OneApplicationPerPosting
  <1>1. IInv => OneApplicationPerPosting
    <2> SUFFICES ASSUME IInv, NEW p \in Postings \ slipped,
                        NEW a \in MadeFrom(p), NEW b \in MadeFrom(p)
                 PROVE  a = b
      BY DEF OneApplicationPerPosting
    <2>1. a # None /\ b # None
      BY TrackerAssumption DEF IInv, TypeOK, MadeFrom
    <2> QED
      BY <2>1 DEF IInv, Unslipped
  <1> QED
    BY <1>1, Invariance, PTL

(* The reply stamp of a lead is there exactly when the lead replied. *)
THEOREM ReplyStamped == Spec => []RepliedIsStamped
  <1>1. Init => RepliedIsStamped
    BY DEF Init, RepliedIsStamped
  <1>2. RepliedIsStamped /\ [Next]_vars => RepliedIsStamped'
    <2> SUFFICES ASSUME RepliedIsStamped, [Next]_vars PROVE RepliedIsStamped'
      OBVIOUS
    <2>1. CASE UNCHANGED leads
      BY <2>1 DEF RepliedIsStamped
    <2>2. ASSUME NEW id \in LeadIds, NEW m, InsertLead(id, m, FALSE) PROVE RepliedIsStamped'
      BY <2>2 DEF InsertLead, With, RepliedIsStamped
    <2>3. ASSUME NEW id \in LeadIds, NEW m, PatchMail(id, m) PROVE RepliedIsStamped'
      BY <2>3 DEF PatchMail, RepliedIsStamped
    <2>4. ASSUME NEW id \in LeadIds, NEW b \in BOOLEAN, PatchReplied(id, b)
          PROVE  RepliedIsStamped'
      BY <2>4 DEF PatchReplied, RepliedIsStamped
    <2>5. ASSUME NEW id \in LeadIds, DeleteLead(id) PROVE RepliedIsStamped'
      BY <2>5 DEF DeleteLead, DropLead, Without, RepliedIsStamped
    <2> QED
      BY <2>1, <2>2, <2>3, <2>4, <2>5
      DEF Next, AppStep, TrackStep, LeadStep, LinkStep, vars, InsertApplication,
          DeleteApplication, ReadPosting, CreateFromPosting, StampPosting, TrackDies, NewApp,
          ClickDelete, GraceEnds, Undo, DeleteFails, LookUpLead, LinkLead, UnlinkLead
  <1> QED
    BY <1>1, <1>2, PTL DEF Spec

(* A row that is hidden or kept belongs to a lead that is there. *)
RowsLive == \A l \in LeadIds : rows[l] \in {"hidden", "kept", "sent", "late"} => l \in DOMAIN leads

(* An Undo that comes in time keeps its row. *)
THEOREM UndoHolds == Spec => UndoneInTimeIsKept
  <1>1. Init => RowsLive
    BY DEF Init, RowsLive
  <1> DEFINE Kept ==
        \A l \in LeadIds : rows[l] = "kept" =>
          rows'[l] \in {"kept", "hidden"} /\ l \in DOMAIN leads'
  <1>2. TypeOK /\ RowsLive /\ [Next]_vars => RowsLive' /\ Kept
    <2> SUFFICES ASSUME TypeOK, RowsLive, [Next]_vars PROVE RowsLive' /\ Kept
      OBVIOUS
    <2>1. CASE UNCHANGED <<leads, rows>>
      BY <2>1 DEF RowsLive
    <2>2. ASSUME NEW id \in LeadIds, NEW m, InsertLead(id, m, FALSE) \/ PatchMail(id, m)
          PROVE  RowsLive' /\ Kept
      BY <2>2 DEF InsertLead, PatchMail, With, LeadKeeps, RowsLive
    <2>3. ASSUME NEW id \in LeadIds, NEW b \in BOOLEAN, PatchReplied(id, b) PROVE RowsLive' /\ Kept
      BY <2>3 DEF PatchReplied, LeadKeeps, RowsLive
    <2>4. ASSUME NEW id \in LeadIds,
                 ClickDelete(id) \/ GraceEnds(id) \/ Undo(id) \/ DeleteFails(id)
          PROVE  RowsLive' /\ Kept
      BY <2>4 DEF ClickDelete, GraceEnds, Undo, DeleteFails, RowsLive, TypeOK
    <2>5. ASSUME NEW id \in LeadIds, DeleteLead(id) PROVE RowsLive' /\ Kept
      BY <2>5 DEF DeleteLead, DropLead, Without, RowsLive, TypeOK
    <2> QED
      BY <2>1, <2>2, <2>3, <2>4, <2>5
      DEF Next, AppStep, TrackStep, LeadStep, LinkStep, vars, InsertApplication,
          DeleteApplication, ReadPosting, CreateFromPosting, StampPosting, TrackDies, NewApp,
          LookUpLead, LinkLead, UnlinkLead
  <1> QED
    BY <1>1, <1>2, TypeCorrect, PTL DEF Spec, UndoneInTimeIsKept
=============================================================================
