---------------------------- MODULE DatasetsProofs ----------------------------
(***************************************************************************)
(* Theorems about Datasets, for every set of datasets, sessions and        *)
(* requests and every bound on the versions.                               *)
(***************************************************************************)
EXTENDS Datasets, TLAPS, SequenceTheorems

-----------------------------------------------------------------------------
(* Numbering.  A request carries the number of the version it works on;    *)
(* that the number is still one of the dataset's, and that Latest has a    *)
(* value at all, rests on there being one draft, the last version.         *)

Shape == /\ versions \in [Sets -> Seq(Version)]
         /\ \A d \in Sets : Len(versions[d]) <= MaxVersions

AssignAt ==
    \A a \in Assigns :
        /\ assign[a].pc # "idle" => assign[a].ds \in Sets /\ assign[a].s \in Roots
        /\ assign[a].pc = "insert" => assign[a].num \in 1 .. Len(versions[assign[a].ds])

(* The creator of a draft is alone, finds none, and has room for it.       *)
CreatorAlone ==
    \A a \in Assigns : assign[a].pc = "inherit" =>
        /\ Drafts(assign[a].ds) = {}
        /\ Len(versions[assign[a].ds]) < MaxVersions
        /\ \A b \in Assigns \ {a} : assign[b].pc = "inherit" => assign[b].ds # assign[a].ds

CloseAt ==
    \A c \in Closes : close[c].pc # "idle" =>
        close[c].ds \in Sets /\ close[c].num \in 1 .. Len(versions[close[c].ds])

Numbering == Shape /\ DraftIsLast /\ AssignAt /\ CreatorAlone /\ CloseAt

LEMMA DraftNumbers ==
  ASSUME Shape, NEW d \in Sets
  PROVE  /\ Drafts(d) \subseteq 1 .. Len(versions[d])
         /\ Len(versions[d]) \in 0 .. MaxVersions
         /\ DOMAIN versions[d] = 1 .. Len(versions[d])
         /\ \A n \in 1 .. Len(versions[d]) : versions[d][n] \in Version
<1>1. versions[d] \in Seq(Version)
  BY DEF Shape
<1>2. DOMAIN versions[d] = 1 .. Len(versions[d]) /\ Len(versions[d]) \in Nat
  BY <1>1
<1>3. Len(versions[d]) <= MaxVersions
  BY DEF Shape
<1> QED BY <1>1, <1>2, <1>3, DatasetsAssumption DEF Drafts

LEMMA LatestDraft ==
  ASSUME Shape, DraftIsLast, NEW d \in Sets, Drafts(d) # {}
  PROVE  Latest(Drafts(d)) \in 1 .. Len(versions[d])
<1>1. \A n \in Drafts(d) : n = Len(versions[d])
  BY DraftNumbers DEF DraftIsLast, Drafts
<1>2. Len(versions[d]) \in Drafts(d)
  BY <1>1
<1>3. Latest(Drafts(d)) \in Drafts(d)
  BY <1>1, <1>2, DraftNumbers DEF Latest
<1> QED BY <1>3, DraftNumbers

LEMMA InheritedRoots ==
  ASSUME Shape, NEW d \in Sets, Drafts(d) = {}
  PROVE  Inherited(d) \in SUBSET Roots
<1>1. CASE Closed(d) = {}
  BY <1>1 DEF Inherited
<1>2. CASE Closed(d) # {}
  <2>1. Closed(d) = 1 .. Len(versions[d])
    BY DraftNumbers DEF Closed, Drafts, Version
  <2>2. Len(versions[d]) \in Closed(d) /\ \A m \in Closed(d) : m <= Len(versions[d])
    BY <2>1, <1>2, DraftNumbers
  <2>3. Latest(Closed(d)) \in Closed(d)
    BY <2>2 DEF Latest
  <2> QED BY <2>1, <2>3, <1>2, DraftNumbers DEF Inherited, Version
<1> QED BY <1>1, <1>2

(* What every step but the creation of a draft does to the versions.       *)
SameVersions ==
    /\ versions' \in [Sets -> Seq(Version)]
    /\ \A d \in Sets :
        /\ Len(versions'[d]) = Len(versions[d])
        /\ \A n \in 1 .. Len(versions[d]) :
               versions[d][n].status = "CLOSED" => versions'[d][n].status = "CLOSED"

LEMMA UnchangedIsSame == Shape /\ versions' = versions => SameVersions
  BY DEF Shape, SameVersions

LEMMA SameKeeps ==
  ASSUME Shape, DraftIsLast, SameVersions
  PROVE  /\ Shape' /\ DraftIsLast'
         /\ \A d \in Sets : \A n \in DOMAIN versions'[d] : versions'[d][n] \in Version
         /\ \A d \in Sets : Drafts(d) = {} => Drafts(d)' = {}
<1>1. Shape'
  BY DEF Shape, SameVersions
<1>2. \A d \in Sets : DOMAIN versions'[d] = 1 .. Len(versions'[d]) /\ versions'[d] \in Seq(Version)
  BY DEF SameVersions
<1>3. \A d \in Sets : \A n \in DOMAIN versions'[d] : versions'[d][n] \in Version
  BY <1>2
<1>4. DraftIsLast'
  BY <1>2, DraftNumbers DEF DraftIsLast, SameVersions
<1>5. ASSUME NEW d \in Sets, Drafts(d) = {} PROVE Drafts(d)' = {}
  BY <1>2, <1>5, DraftNumbers DEF Drafts, SameVersions, Version
<1> QED BY <1>1, <1>3, <1>4, <1>5

-----------------------------------------------------------------------------
(* The steps, request by request.                                          *)

LEMMA WriteVersion ==
  ASSUME Shape, NEW d \in Sets, NEW n \in 1 .. Len(versions[d]), NEW v \in Version,
         versions[d][n].status = "CLOSED" => v.status = "CLOSED",
         versions' = [versions EXCEPT ![d] = [versions[d] EXCEPT ![n] = v]]
  PROVE  SameVersions
<1> DEFINE new == [versions[d] EXCEPT ![n] = v]
<1>1. versions[d] \in Seq(Version)
  BY DEF Shape
<1>2. /\ new \in Seq(Version) /\ Len(new) = Len(versions[d])
      /\ \A j \in 1 .. Len(versions[d]) : new[j] = IF j = n THEN v ELSE versions[d][j]
  BY <1>1, ExceptSeq
<1>3. versions' = [versions EXCEPT ![d] = new]
  OBVIOUS
<1> HIDE DEF new
<1>4. versions' \in [Sets -> Seq(Version)]
  BY <1>2, <1>3 DEF Shape
<1>5. versions'[d] = new /\ \A e \in Sets : e # d => versions'[e] = versions[e]
  BY <1>3 DEF Shape
<1> QED BY <1>2, <1>4, <1>5 DEF SameVersions

(* A step that makes no creator, and no draft or version where there was   *)
(* none, leaves every creator alone.                                       *)
LEMMA CreatorsStay ==
  ASSUME Numbering,
         \A b \in Assigns : assign'[b].pc = "inherit" => assign'[b] = assign[b],
         \A d \in Sets : Len(versions'[d]) = Len(versions[d]),
         \A d \in Sets : Drafts(d) = {} => Drafts(d)' = {}
  PROVE  CreatorAlone'
<1> SUFFICES ASSUME NEW b \in Assigns, assign'[b].pc = "inherit"
             PROVE  /\ Drafts(assign[b].ds)' = {}
                    /\ Len(versions'[assign'[b].ds]) < MaxVersions
                    /\ \A c \in Assigns \ {b} :
                         assign'[c].pc = "inherit" => assign'[c].ds # assign'[b].ds
  BY DEF CreatorAlone
<1> DEFINE e == assign[b].ds
<1>1. assign'[b] = assign[b] /\ assign[b].pc = "inherit"
  OBVIOUS
<1>2. e \in Sets
  BY <1>1 DEF Numbering, AssignAt
<1>3. /\ Drafts(e) = {}
      /\ Len(versions[e]) < MaxVersions
      /\ \A c \in Assigns \ {b} : assign[c].pc = "inherit" => assign[c].ds # e
  BY <1>1 DEF Numbering, CreatorAlone
<1>4. Len(versions'[e]) < MaxVersions
  BY <1>2, <1>3
<1>5. \A c \in Assigns \ {b} : assign'[c].pc = "inherit" => assign'[c].ds # e
  BY <1>3
<1>6. \A d \in Sets : Drafts(d) = {} => Drafts(d)' = {}
  OBVIOUS
<1>7. assign'[b].ds = e
  BY <1>1
<1>8. Drafts(assign[b].ds)' = {}
  BY <1>1, <1>2, <1>3, <1>6 DEF Drafts
<1> QED BY <1>4, <1>5, <1>7, <1>8

LEMMA AssignsStay ==
  ASSUME Numbering, SameVersions, assign' = assign PROVE AssignAt' /\ CreatorAlone'
<1>1. AssignAt'
  BY DEF Numbering, AssignAt, SameVersions
<1>2. \A d \in Sets : Drafts(d) = {} => Drafts(d)' = {}
  BY SameKeeps DEF Numbering
<1>4. CreatorAlone'
  BY <1>2, CreatorsStay DEF SameVersions
<1> QED BY <1>1, <1>4

LEMMA ClosesStay ==
  ASSUME CloseAt, SameVersions, close' = close PROVE CloseAt'
  BY DEF CloseAt, SameVersions

LEMMA AssignSteps ==
  ASSUME TypeOK, Numbering, NEW a \in Assigns, Assigning(a)
  PROVE  TypeOK' /\ Numbering'
<1> USE DEF GoTo, EndAssign, IdleAssign
<1>t. /\ locked' = locked /\ tree' = tree /\ feedback' = feedback
      /\ unassign' = unassign /\ close' = close /\ rate' = rate /\ spawn' = spawn
  BY DEF Assigning, StartAssign, CheckOtherSet, FindDraft, CreateDraft, CreateRefused,
         InheritAndCommit, InsertMember, AbortAssign
<1>a. assign[a].pc # "idle" =>
        assign[a].ds \in Sets /\ assign[a].s \in Roots /\ versions[assign[a].ds] \in Seq(Version)
  BY DEF Numbering, AssignAt, Shape
<1>r. assign[a] \in [pc : {"idle", "other", "draft", "create", "inherit", "insert"},
                    ds : Sets \cup {None}, s : Roots \cup {None}, num : 0 .. MaxVersions]
  BY DEF TypeOK
(* Every step but two leaves the versions and makes no creator.            *)
<1>1. ASSUME SameVersions,
             NEW to \in [pc : {"idle", "other", "draft", "create", "insert"}, ds : Sets \cup {None},
                         s : Roots \cup {None}, num : 0 .. MaxVersions],
             assign' = [assign EXCEPT ![a] = to],
             to.pc # "idle" => to.ds \in Sets /\ to.s \in Roots,
             to.pc = "insert" => to.num \in 1 .. Len(versions[to.ds])
      PROVE  TypeOK' /\ Numbering'
  <2>1. Shape' /\ DraftIsLast' /\ CloseAt'
    BY <1>1, <1>t, SameKeeps, ClosesStay DEF Numbering
  <2>2. assign'[a] = to /\ \A b \in Assigns : b # a => assign'[b] = assign[b]
    BY <1>1 DEF TypeOK
  <2>3. AssignAt'
    BY <1>1, <2>2 DEF Numbering, AssignAt, SameVersions
  <2>5. \A d \in Sets : Drafts(d) = {} => Drafts(d)' = {}
    BY <1>1, SameKeeps DEF Numbering
  <2>6. \A b \in Assigns : assign'[b].pc = "inherit" => assign'[b] = assign[b]
    BY <1>1, <2>2
  <2>9. \A d \in Sets : Len(versions'[d]) = Len(versions[d])
    BY <1>1 DEF SameVersions
  <2>7. CreatorAlone'
    BY <2>5, <2>6, <2>9, CreatorsStay
  <2>4. assign' \in [Assigns -> [pc : {"idle", "other", "draft", "create", "inherit", "insert"},
                                ds : Sets \cup {None}, s : Roots \cup {None}, num : 0 .. MaxVersions]]
    BY <1>1 DEF TypeOK
  <2>8. \A d \in Sets : \A n \in DOMAIN versions'[d] : versions'[d][n] \in Version
    BY <1>1, SameKeeps DEF Numbering
  <2> QED BY <1>t, <2>1, <2>3, <2>4, <2>7, <2>8 DEF TypeOK, Numbering
<1>u. versions' = versions => SameVersions
  BY UnchangedIsSame DEF Numbering
<1>2. ASSUME EndAssign(a), SameVersions PROVE TypeOK' /\ Numbering'
  <2>1. IdleAssign \in [pc : {"idle", "other", "draft", "create", "insert"}, ds : Sets \cup {None},
                        s : Roots \cup {None}, num : 0 .. MaxVersions]
    BY DatasetsAssumption
  <2> QED BY <1>1, <1>2, <2>1
<1>3. ASSUME NEW next \in {"draft", "create"}, assign[a].pc # "idle", versions' = versions,
             assign' = [assign EXCEPT ![a].pc = next]
      PROVE  TypeOK' /\ Numbering'
  <2> DEFINE to == [assign[a] EXCEPT !.pc = next]
  <2>1. to \in [pc : {"idle", "other", "draft", "create", "insert"}, ds : Sets \cup {None},
                s : Roots \cup {None}, num : 0 .. MaxVersions]
    BY <1>r
  <2>2. to.pc = next /\ to.ds = assign[a].ds /\ to.s = assign[a].s
    BY DEF TypeOK
  <2>3. assign' = [assign EXCEPT ![a] = to]
    BY <1>3
  <2> HIDE DEF to
  <2> QED BY <2>1, <2>2, <2>3, <1>1, <1>3, <1>a, <1>u
<1>4. ASSUME NEW d \in Sets, NEW s \in Roots, StartAssign(a, d, s) PROVE TypeOK' /\ Numbering'
  <2> DEFINE to == [pc |-> "other", ds |-> d, s |-> s, num |-> 0]
  <2>1. to \in [pc : {"idle", "other", "draft", "create", "insert"}, ds : Sets \cup {None},
                s : Roots \cup {None}, num : 0 .. MaxVersions]
    BY DatasetsAssumption
  <2>2. to.pc = "other" /\ to.ds \in Sets /\ to.s \in Roots /\ versions' = versions
        /\ assign' = [assign EXCEPT ![a] = to]
    BY <1>4 DEF StartAssign
  <2> HIDE DEF to
  <2> QED BY <2>1, <2>2, <1>1, <1>u
<1>5. CASE CheckOtherSet(a)
  BY <1>5, <1>2, <1>3, <1>u DEF CheckOtherSet
<1>6. CASE FindDraft(a)
  <2>1. CASE Drafts(assign[a].ds) = {}
    BY <1>6, <2>1, <1>3 DEF FindDraft
  <2>2. CASE Drafts(assign[a].ds) # {}
    <3>1. assign' = [assign EXCEPT ![a] = [assign[a] EXCEPT !.pc = "insert", !.num = Latest(Drafts(assign[a].ds))]]
          /\ versions' = versions
      BY <1>6, <2>2 DEF FindDraft
    <3>2. Latest(Drafts(assign[a].ds)) \in 1 .. Len(versions[assign[a].ds])
      BY <1>6, <1>a, <2>2, LatestDraft DEF FindDraft, Numbering
    <3>3. Latest(Drafts(assign[a].ds)) \in 0 .. MaxVersions
      BY <3>2, <1>6, <1>a, DraftNumbers, DatasetsAssumption DEF FindDraft, Numbering
    <3> DEFINE to == [assign[a] EXCEPT !.pc = "insert", !.num = Latest(Drafts(assign[a].ds))]
    <3>4. to \in [pc : {"idle", "other", "draft", "create", "insert"}, ds : Sets \cup {None},
                  s : Roots \cup {None}, num : 0 .. MaxVersions]
      BY <3>3, <1>r
    <3>5. to.ds = assign[a].ds /\ to.s = assign[a].s /\ to.num = Latest(Drafts(assign[a].ds))
      BY DEF TypeOK
    <3>6. to.ds \in Sets /\ to.s \in Roots /\ to.num \in 1 .. Len(versions[to.ds])
      BY <3>2, <3>5, <1>6, <1>a DEF FindDraft
    <3> HIDE DEF to
    <3>7. to.pc = "insert" /\ assign' = [assign EXCEPT ![a] = to]
      BY <3>1 DEF TypeOK, to
    <3> QED BY <3>1, <3>4, <3>6, <3>7, <1>1, <1>u
  <2> QED BY <2>1, <2>2
<1>7. CASE CreateDraft(a)
  <2>1. assign' = [assign EXCEPT ![a] = [assign[a] EXCEPT !.pc = "inherit"]] /\ versions' = versions
    BY <1>7 DEF CreateDraft
  <2>2. assign[a].ds \in Sets /\ Drafts(assign[a].ds) = {} /\ ~Creating(assign[a].ds)
        /\ Len(versions[assign[a].ds]) < MaxVersions
    BY <1>7, <1>a DEF CreateDraft, DraftIndexFree
  <2>3. Shape' /\ DraftIsLast' /\ CloseAt'
    BY <2>1, <1>t DEF Numbering, Shape, DraftIsLast, CloseAt
  <2>4. AssignAt'
    BY <2>1, <1>7 DEF TypeOK, Numbering, AssignAt, CreateDraft
  <2>5. \A b \in Assigns : b # a => assign'[b] = assign[b]
    BY <2>1 DEF TypeOK
  <2>6. assign'[a].pc = "inherit" /\ assign'[a].ds = assign[a].ds
    BY <2>1 DEF TypeOK
  <2>7. \A b \in Assigns \ {a} : assign[b].pc = "inherit" => assign[b].ds # assign[a].ds
    BY <2>2 DEF Creating
  <2>8. CreatorAlone'
    BY <2>1, <2>2, <2>5, <2>6, <2>7 DEF Numbering, CreatorAlone, Drafts
  <2>9. assign' \in [Assigns -> [pc : {"idle", "other", "draft", "create", "inherit", "insert"},
                                ds : Sets \cup {None}, s : Roots \cup {None}, num : 0 .. MaxVersions]]
    <3> DEFINE AssignRecord == [pc : {"idle", "other", "draft", "create", "inherit", "insert"},
                                ds : Sets \cup {None}, s : Roots \cup {None}, num : 0 .. MaxVersions]
    <3>1. assign \in [Assigns -> AssignRecord]
      BY DEF TypeOK
    <3>2. [assign[a] EXCEPT !.pc = "inherit"] \in AssignRecord
      BY <1>r
    <3> HIDE DEF AssignRecord
    <3>3. assign' \in [Assigns -> AssignRecord]
      BY <2>1, <3>1, <3>2
    <3> QED BY <3>3 DEF AssignRecord
  <2> QED BY <1>t, <2>1, <2>3, <2>4, <2>8, <2>9 DEF TypeOK, Numbering
<1>8. CASE CreateRefused(a)
  BY <1>8, <1>2, <1>u DEF CreateRefused
<1>9. CASE AbortAssign(a)
  BY <1>9, <1>2, <1>u DEF AbortAssign
<1>10. CASE InheritAndCommit(a)
  <2> DEFINE d == assign[a].ds
             new == [status |-> "DRAFT", members |-> Inherited(d)]
             to == [assign[a] EXCEPT !.pc = "insert", !.num = Len(versions[d]) + 1]
  <2>1. /\ d \in Sets /\ assign[a].s \in Roots /\ assign[a].pc = "inherit" /\ Drafts(d) = {}
        /\ Len(versions[d]) \in Nat /\ Len(versions[d]) < MaxVersions
        /\ versions[d] \in Seq(Version)
    <3>1. d \in Sets /\ assign[a].s \in Roots /\ assign[a].pc = "inherit"
      BY <1>10, <1>a DEF InheritAndCommit
    <3>2. versions[d] \in Seq(Version)
      BY <3>1 DEF Numbering, Shape, TypeOK
    <3>3. Drafts(d) = {} /\ Len(versions[d]) < MaxVersions
      BY <3>1 DEF Numbering, CreatorAlone
    <3>4. Len(versions[d]) \in Nat
      BY <3>2
    <3> QED BY <3>1, <3>2, <3>3, <3>4
  <2>2. new \in Version
    BY <2>1, InheritedRoots DEF Numbering, Version
  <2>3. versions' = [versions EXCEPT ![d] = Append(versions[d], new)]
    BY <1>10 DEF InheritAndCommit
  <2>4. assign' = [assign EXCEPT ![a] = to]
    BY <1>10 DEF InheritAndCommit
  <2>4a. Len(versions[d]) + 1 \in 0 .. MaxVersions
    BY <2>1, DatasetsAssumption
  <2>5. /\ to.pc = "insert" /\ to.ds = d /\ to.s = assign[a].s /\ to.num = Len(versions[d]) + 1
        /\ to \in [pc : {"insert"}, ds : Sets \cup {None}, s : Roots \cup {None}, num : 0 .. MaxVersions]
    BY <2>4a, <1>r
  <2> HIDE DEF new, to, d
  <2>6. /\ versions'[d] \in Seq(Version) /\ Len(versions'[d]) = Len(versions[d]) + 1
        /\ \A i \in 1 .. Len(versions[d]) : versions'[d][i] = versions[d][i]
    BY <2>1, <2>2, <2>3, AppendProperties DEF Numbering, Shape
  <2>7. \A e \in Sets : e # d => versions'[e] = versions[e]
    BY <2>3 DEF Numbering, Shape
  <2>8. Shape'
    <3>1. versions' \in [Sets -> Seq(Version)]
      BY <2>1, <2>3, <2>6 DEF Numbering, Shape
    <3>2. Len(versions'[d]) <= MaxVersions
      BY <2>1, <2>6, DatasetsAssumption
    <3> QED BY <2>7, <3>1, <3>2 DEF Numbering, Shape
  <2>9. DraftIsLast'
    <3>1. \A i \in 1 .. Len(versions[d]) : versions[d][i].status = "CLOSED"
      BY <2>1, DraftNumbers DEF Numbering, Drafts, Version
    <3>2. \A n \in DOMAIN versions'[d] : n \in 1 .. Len(versions[d]) + 1
      BY <2>6
    <3>3. \A n \in DOMAIN versions'[d] : n < Len(versions'[d]) => versions'[d][n].status = "CLOSED"
      BY <2>1, <2>6, <3>1, <3>2
    <3> QED BY <2>7, <3>3 DEF Numbering, DraftIsLast
  <2>10. assign'[a] = to /\ \A b \in Assigns : b # a => assign'[b] = assign[b]
    BY <2>4 DEF TypeOK
  <2>11. \A e \in Sets : \A i \in 1 .. Len(versions[e]) : i \in 1 .. Len(versions'[e])
    BY <2>1, <2>6, <2>7
  <2>12. AssignAt'
    <3>1. to.num \in 1 .. Len(versions'[to.ds])
      BY <2>1, <2>5, <2>6
    <3>2. \A b \in Assigns : b # a => (assign'[b].pc = "insert" => assign'[b].num \in 1 .. Len(versions'[assign'[b].ds]))
      BY <2>10, <2>11 DEF Numbering, AssignAt
    <3> QED BY <2>1, <2>5, <2>10, <3>1, <3>2 DEF Numbering, AssignAt
  <2>13. \A b \in Assigns : assign'[b].pc = "inherit" =>
           b # a /\ assign'[b] = assign[b] /\ assign[b].ds \in Sets /\ assign[b].ds # d
    BY <2>1, <2>5, <2>10 DEF Numbering, AssignAt, CreatorAlone, d
  <2>14. CreatorAlone'
    BY <2>7, <2>13 DEF Numbering, CreatorAlone, Drafts
  <2>15. CloseAt'
    BY <2>11, <1>t DEF Numbering, CloseAt
  <2>16. assign' \in [Assigns -> [pc : {"idle", "other", "draft", "create", "inherit", "insert"},
                                 ds : Sets \cup {None}, s : Roots \cup {None}, num : 0 .. MaxVersions]]
    BY <2>4, <2>5 DEF TypeOK
  <2>17. \A e \in Sets : \A n \in DOMAIN versions'[e] : versions'[e][n] \in Version
    BY <2>8 DEF Shape
  <2> QED BY <1>t, <2>8, <2>9, <2>12, <2>14, <2>15, <2>16, <2>17 DEF TypeOK, Numbering
<1>11. CASE InsertMember(a)
  <2> DEFINE d == assign[a].ds
             n == assign[a].num
             v == [versions[d][n] EXCEPT !.members = @ \cup {assign[a].s}]
  <2>1. d \in Sets /\ assign[a].s \in Roots /\ n \in 1 .. Len(versions[d])
    BY <1>11, <1>a DEF InsertMember, Numbering, AssignAt
  <2>2. versions[d][n] \in Version
    BY <2>1, DraftNumbers DEF Numbering
  <2>3. v \in Version /\ v.status = versions[d][n].status
    BY <2>1, <2>2 DEF Version
  <2>4. versions' = [versions EXCEPT ![d] = [versions[d] EXCEPT ![n] = v]]
    BY <1>11 DEF InsertMember
  <2>5. SameVersions
    BY <2>1, <2>3, <2>4, WriteVersion DEF Numbering
  <2> QED BY <2>5, <1>2, <1>11 DEF InsertMember
<1> QED BY <1>4, <1>5, <1>6, <1>7, <1>8, <1>9, <1>10, <1>11 DEF Assigning

LEMMA UnassignSteps ==
  ASSUME TypeOK, Numbering, NEW u \in Unassigns, Unassigning(u)
  PROVE  TypeOK' /\ Numbering'
<1>1. /\ locked' = locked /\ tree' = tree /\ feedback' = feedback
      /\ assign' = assign /\ close' = close /\ rate' = rate /\ spawn' = spawn
  BY DEF Unassigning, StartUnassign, DeleteMember
<1>2. unassign' \in [Unassigns -> [pc : {"idle", "delete"}, s : Roots \cup {None}]]
  BY DEF Unassigning, StartUnassign, DeleteMember, TypeOK, IdleCheck
<1>3. SameVersions
  <2>1. CASE versions' = versions
    BY <2>1, UnchangedIsSame DEF Numbering
  <2>2. CASE DeleteMember(u)
    <3> DEFINE new(d) == [n \in DOMAIN versions[d] |->
                  IF n \in Drafts(d) THEN [versions[d][n] EXCEPT !.members = @ \ {unassign[u].s}]
                  ELSE versions[d][n]]
    <3>1. versions' = [d \in Sets |-> new(d)]
      BY <2>2 DEF DeleteMember
    <3>2. ASSUME NEW d \in Sets
          PROVE  /\ new(d) \in Seq(Version) /\ Len(new(d)) = Len(versions[d])
                 /\ \A n \in 1 .. Len(versions[d]) : new(d)[n].status = versions[d][n].status
      <4>1. versions[d] \in Seq(Version) /\ DOMAIN versions[d] = 1 .. Len(versions[d])
            /\ Len(versions[d]) \in Nat
        BY DraftNumbers DEF Numbering, Shape
      <4>2. \A n \in 1 .. Len(versions[d]) : versions[d][n] \in Version
        BY <4>1
      <4>3. \A v \in Version : [v EXCEPT !.members = @ \ {unassign[u].s}] \in Version
                               /\ [v EXCEPT !.members = @ \ {unassign[u].s}].status = v.status
        BY DEF Version
      <4>4. \A n \in 1 .. Len(versions[d]) : new(d)[n] \in Version /\ new(d)[n].status = versions[d][n].status
        BY <4>1, <4>2, <4>3
      <4>5. new(d) \in [1 .. Len(versions[d]) -> Version]
        BY <4>1, <4>4
      <4> HIDE DEF new
      <4>6. new(d) \in Seq(Version) /\ Len(new(d)) = Len(versions[d])
        BY <4>1, <4>5
      <4> QED BY <4>4, <4>6
    <3> HIDE DEF new
    <3> QED BY <3>1, <3>2 DEF SameVersions
  <2> QED BY <2>1, <2>2 DEF Unassigning, StartUnassign
<1>4. Shape' /\ DraftIsLast' /\ \A d \in Sets : \A n \in DOMAIN versions'[d] : versions'[d][n] \in Version
  BY <1>3, SameKeeps DEF Numbering
<1>5. AssignAt' /\ CreatorAlone' /\ CloseAt'
  BY <1>1, <1>3, AssignsStay, ClosesStay DEF Numbering
<1> QED BY <1>1, <1>2, <1>4, <1>5 DEF TypeOK, Numbering

LEMMA RateAndSpawnSteps ==
  ASSUME TypeOK, Numbering,
         \/ \E r \in Raters : Rating(r)
         \/ \E p \in Spawns : Spawning(p)
  PROVE  TypeOK' /\ Numbering'
<1>1. /\ versions' = versions /\ locked' = locked /\ assign' = assign
      /\ unassign' = unassign /\ close' = close
  BY DEF Rating, StartRate, WriteFeedback, Spawning, LockRoot, InsertChild, AbortSpawn
<1>2. Numbering'
  BY <1>1 DEF Numbering, Shape, DraftIsLast, AssignAt, CreatorAlone, CloseAt, Drafts
<1>3. feedback' \in [Roots -> Feedback]
  BY DEF Rating, StartRate, WriteFeedback, Spawning, LockRoot, InsertChild, AbortSpawn, TypeOK, Feedback
<1>4. rate' \in [Raters -> [pc : {"idle", "write"}, s : Roots \cup {None}]]
  BY DEF Rating, StartRate, WriteFeedback, Spawning, LockRoot, InsertChild, AbortSpawn, TypeOK, IdleCheck
<1>5. ASSUME NEW p \in Spawns, Spawning(p)
      PROVE  /\ spawn' \in [Spawns -> [pc : {"idle", "insert"}, root : Roots \cup {None}]]
             /\ tree' \in [Children -> Roots \cup {None}]
  <2> DEFINE SpawnRecord == [pc : {"idle", "insert"}, root : Roots \cup {None}]
  <2>1. spawn \in [Spawns -> SpawnRecord] /\ tree \in [Children -> Roots \cup {None}]
    BY DEF TypeOK
  <2>2. IdleSpawn \in SpawnRecord /\ spawn[p].root \in Roots \cup {None}
    BY <2>1 DEF IdleSpawn
  <2>3. ASSUME NEW r \in Roots, LockRoot(p, r)
        PROVE  spawn' \in [Spawns -> SpawnRecord] /\ tree' = tree
    <3>1. spawn' = [spawn EXCEPT ![p] = [pc |-> "insert", root |-> r]] /\ tree' = tree
      BY <2>3 DEF LockRoot
    <3>2. [pc |-> "insert", root |-> r] \in SpawnRecord
      OBVIOUS
    <3> HIDE DEF SpawnRecord
    <3> QED BY <2>1, <3>1, <3>2
  <2>4. ASSUME NEW k \in Children, InsertChild(p, k)
        PROVE  spawn' \in [Spawns -> SpawnRecord] /\ tree' \in [Children -> Roots \cup {None}]
    <3>1. spawn' = [spawn EXCEPT ![p] = IdleSpawn] /\ tree' = [tree EXCEPT ![k] = spawn[p].root]
      BY <2>4 DEF InsertChild
    <3> HIDE DEF SpawnRecord
    <3> QED BY <2>1, <2>2, <3>1
  <2>5. ASSUME AbortSpawn(p) PROVE spawn' \in [Spawns -> SpawnRecord] /\ tree' = tree
    <3>1. spawn' = [spawn EXCEPT ![p] = IdleSpawn] /\ tree' = tree
      BY <2>5 DEF AbortSpawn
    <3> HIDE DEF SpawnRecord
    <3> QED BY <2>1, <2>2, <3>1
  <2> QED BY <1>5, <2>1, <2>3, <2>4, <2>5 DEF Spawning
<1>6. ASSUME NEW r \in Raters, Rating(r) PROVE spawn' = spawn /\ tree' = tree
  BY <1>6 DEF Rating, StartRate, WriteFeedback
<1> QED BY <1>1, <1>2, <1>3, <1>4, <1>5, <1>6 DEF TypeOK

CloseRecord == [pc : {"idle", "begin", "purge", "flip", "roots", "children"},
                ds : Sets \cup {None}, num : 0 .. MaxVersions, purged : SUBSET Roots,
                todo : SUBSET Sessions, held : SUBSET Sessions, seen : SUBSET Roots]

(* What a close writes into its own record.                                *)
LEMMA CloseWrites ==
  ASSUME TypeOK, Numbering, NEW c \in Closes, Closing(c), ~(\E d \in Sets : StartClose(c, d))
  PROVE  \E to \in CloseRecord :
           /\ close' = [close EXCEPT ![c] = to]
           /\ to = IdleClose \/ (to.pc # "idle" /\ to.ds = close[c].ds /\ to.num = close[c].num)
           /\ close[c].pc # "idle"
<1> DEFINE was == close[c]
<1>1. was \in CloseRecord
  BY DEF TypeOK, CloseRecord
<1>2. was.pc # "idle"
  BY DEF Closing, CheckDraft, PurgeMembers, FlipStatus, LockRow, ScanChildren, CommitClose, AllLocked, AbortClose
<1>3. IdleClose \in CloseRecord
  BY DatasetsAssumption DEF IdleClose, CloseRecord
<1>4. was.ds \in Sets /\ was.num \in 1 .. Len(versions[was.ds])
  BY <1>2 DEF Numbering, CloseAt
<1>5. Members(c) \in SUBSET Roots
  BY <1>4, DraftNumbers DEF Members, Numbering, Version
<1>6. ASSUME Released(c) = close' PROVE close' = [close EXCEPT ![c] = IdleClose]
  BY <1>6 DEF Released
<1>7. CASE CheckDraft(c)
  <2>1. CASE close' = Released(c)
    BY <2>1, <1>2, <1>3, <1>6
  <2>2. CASE close' = [close EXCEPT ![c].pc = "purge"]
    <3> DEFINE to == [was EXCEPT !.pc = "purge"]
    <3>1. to \in CloseRecord /\ to.pc = "purge" /\ to.ds = was.ds /\ to.num = was.num
      BY <1>1 DEF CloseRecord
    <3>2. close' = [close EXCEPT ![c] = to]
      BY <2>2
    <3> QED BY <3>1, <3>2, <1>2
  <2> QED BY <1>7, <2>1, <2>2 DEF CheckDraft
<1>8. CASE PurgeMembers(c)
  <2> DEFINE gone == {s \in Members(c) : feedback[s] = "none"}
             to == [was EXCEPT !.pc = "flip", !.purged = gone]
  <2>1. gone \in SUBSET Roots
    BY <1>5
  <2>2. to \in CloseRecord /\ to.pc = "flip" /\ to.ds = was.ds /\ to.num = was.num
    BY <1>1, <2>1 DEF CloseRecord
  <2>3. close' = [close EXCEPT ![c] = to]
    BY <1>8 DEF PurgeMembers
  <2> QED BY <2>2, <2>3, <1>2
<1>9. CASE FlipStatus(c)
  <2> DEFINE to == [was EXCEPT !.pc = "roots", !.todo = Members(c) \ locked]
  <2>1. to \in CloseRecord /\ to.pc = "roots" /\ to.ds = was.ds /\ to.num = was.num
    BY <1>1, <1>5 DEF CloseRecord, Sessions
  <2>2. close' = [close EXCEPT ![c] = to]
    BY <1>9 DEF FlipStatus
  <2> QED BY <2>1, <2>2, <1>2
<1>10. CASE \E s \in Sessions : LockRow(c, s)
  <2>1. PICK s \in Sessions : LockRow(c, s)
    BY <1>10
  <2> DEFINE to == [was EXCEPT !.todo = @ \ {s}, !.held = IF s \in locked THEN @ ELSE @ \cup {s}]
  <2>2. to \in CloseRecord /\ to.pc = was.pc /\ to.ds = was.ds /\ to.num = was.num
    BY <1>1 DEF CloseRecord
  <2>3. close' = [close EXCEPT ![c] = to]
    BY <2>1 DEF LockRow
  <2> QED BY <2>2, <2>3, <1>2
<1>11. CASE ScanChildren(c)
  <2> DEFINE to == [was EXCEPT !.pc = "children", !.todo = ToDescend(c), !.seen = Members(c)]
  <2>1. ToDescend(c) \in SUBSET Sessions
    BY DEF ToDescend, Below, Sessions
  <2>2. to \in CloseRecord /\ to.pc = "children" /\ to.ds = was.ds /\ to.num = was.num
    BY <1>1, <1>5, <2>1 DEF CloseRecord
  <2>3. close' = [close EXCEPT ![c] = to]
    BY <1>11 DEF ScanChildren
  <2> QED BY <2>2, <2>3, <1>2
<1>12. CASE CommitClose(c) \/ AbortClose(c)
  BY <1>12, <1>2, <1>3, <1>6 DEF CommitClose, AbortClose
<1> QED BY <1>7, <1>8, <1>9, <1>10, <1>11, <1>12 DEF Closing

LEMMA CloseSteps ==
  ASSUME TypeOK, Numbering, NEW c \in Closes, Closing(c)
  PROVE  TypeOK' /\ Numbering'
<1>1. /\ tree' = tree /\ feedback' = feedback /\ assign' = assign
      /\ unassign' = unassign /\ rate' = rate /\ spawn' = spawn
  BY DEF Closing, StartClose, CheckDraft, PurgeMembers, FlipStatus, LockRow, ScanChildren,
         CommitClose, AbortClose
<1>2. \/ versions' = versions /\ locked' = locked
      \/ CommitClose(c)
  BY DEF Closing, StartClose, CheckDraft, PurgeMembers, FlipStatus, LockRow, ScanChildren, AbortClose
<1>3. SameVersions /\ locked' \subseteq Sessions
  <2>1. CASE versions' = versions /\ locked' = locked
    BY <2>1, UnchangedIsSame DEF Numbering, TypeOK
  <2>2. CASE CommitClose(c)
    <3> DEFINE d == close[c].ds
               n == close[c].num
               v == [status |-> "CLOSED", members |-> Members(c)]
    <3>1. d \in Sets /\ n \in 1 .. Len(versions[d])
      BY <2>2 DEF CommitClose, AllLocked, Numbering, CloseAt
    <3>2. v \in Version /\ v.status = "CLOSED"
      BY <3>1, DraftNumbers DEF Numbering, Members, Version
    <3>3. versions' = [versions EXCEPT ![d] = [versions[d] EXCEPT ![n] = v]]
      BY <2>2 DEF CommitClose
    <3>4. SameVersions
      BY <3>1, <3>2, <3>3, WriteVersion DEF Numbering
    <3>5. locked' = locked \cup close[c].held /\ close[c].held \subseteq Sessions
      BY <2>2 DEF CommitClose, TypeOK
    <3> QED BY <3>4, <3>5 DEF TypeOK
  <2> QED BY <1>2, <2>1, <2>2
<1>4. Shape' /\ DraftIsLast' /\ \A d \in Sets : \A n \in DOMAIN versions'[d] : versions'[d][n] \in Version
  BY <1>3, SameKeeps DEF Numbering
<1>5. AssignAt' /\ CreatorAlone'
  BY <1>1, <1>3, AssignsStay DEF Numbering
<1>6. PICK to \in CloseRecord :
        /\ close' = [close EXCEPT ![c] = to]
        /\ to = IdleClose \/ (to.ds \in Sets /\ to.num \in 1 .. Len(versions[to.ds]) /\ to.pc # "idle")
  <2>1. ASSUME NEW d \in Sets, StartClose(c, d)
        PROVE  \E to \in CloseRecord :
                 /\ close' = [close EXCEPT ![c] = to]
                 /\ to.ds \in Sets /\ to.num \in 1 .. Len(versions[to.ds]) /\ to.pc # "idle"
    <3> DEFINE to == [IdleClose EXCEPT !.pc = "begin", !.ds = d, !.num = Latest(Drafts(d))]
    <3>1. Latest(Drafts(d)) \in 1 .. Len(versions[d])
      BY <2>1, LatestDraft DEF StartClose, Numbering
    <3>2. Latest(Drafts(d)) \in 0 .. MaxVersions
      BY <3>1, DraftNumbers, DatasetsAssumption DEF Numbering
    <3>3. to \in CloseRecord /\ to.pc = "begin" /\ to.ds = d /\ to.num = Latest(Drafts(d))
      BY <3>2 DEF CloseRecord, IdleClose
    <3>4. close' = [close EXCEPT ![c] = to]
      BY <2>1 DEF StartClose
    <3> QED BY <3>1, <3>3, <3>4
  <2>2. close[c].pc # "idle" => close[c].ds \in Sets /\ close[c].num \in 1 .. Len(versions[close[c].ds])
    BY DEF Numbering, CloseAt
  <2> QED BY <2>1, <2>2, CloseWrites
<1>7. close'[c] = to /\ \A b \in Closes : b # c => close'[b] = close[b]
  BY <1>6 DEF TypeOK
<1>8. \A d \in Sets : Len(versions'[d]) = Len(versions[d])
  BY <1>3 DEF SameVersions
<1>9. CloseAt'
  BY <1>6, <1>7, <1>8 DEF Numbering, CloseAt, IdleClose
<1>10. close' \in [Closes -> CloseRecord]
  BY <1>6 DEF TypeOK, CloseRecord
<1>11. \A b \in Closes : close'[b].pc = "idle" => close'[b].held = {} /\ close'[b].purged = {}
  BY <1>6, <1>7 DEF TypeOK, IdleClose
<1> QED BY <1>1, <1>3, <1>4, <1>5, <1>9, <1>10, <1>11 DEF TypeOK, Numbering, CloseRecord

LEMMA NumberingInit == Init => TypeOK /\ Numbering
<1> SUFFICES ASSUME Init PROVE TypeOK /\ Numbering OBVIOUS
<1> USE DEF Init
<1>1. \A d \in Sets : versions[d] = <<>> /\ Len(versions[d]) = 0 /\ DOMAIN versions[d] = {}
  OBVIOUS
<1>2. Shape
  BY <1>1, DatasetsAssumption DEF Shape
<1>3. DraftIsLast
  BY <1>1 DEF DraftIsLast
<1>4. AssignAt /\ CreatorAlone /\ CloseAt
  BY DEF AssignAt, CreatorAlone, CloseAt, IdleAssign, IdleClose
<1>5. locked \subseteq Sessions /\ tree \in [Children -> Roots \cup {None}] /\ feedback \in [Roots -> Feedback]
  BY DEF Feedback
<1>6. assign \in [Assigns -> [pc : {"idle", "other", "draft", "create", "inherit", "insert"},
                             ds : Sets \cup {None}, s : Roots \cup {None}, num : 0 .. MaxVersions]]
  BY DatasetsAssumption DEF IdleAssign
<1>7. /\ unassign \in [Unassigns -> [pc : {"idle", "delete"}, s : Roots \cup {None}]]
      /\ rate \in [Raters -> [pc : {"idle", "write"}, s : Roots \cup {None}]]
      /\ spawn \in [Spawns -> [pc : {"idle", "insert"}, root : Roots \cup {None}]]
  BY DEF IdleCheck, IdleSpawn
<1>8. IdleClose \in [pc : {"idle", "begin", "purge", "flip", "roots", "children"},
                   ds : Sets \cup {None}, num : 0 .. MaxVersions, purged : SUBSET Roots,
                   todo : SUBSET Sessions, held : SUBSET Sessions, seen : SUBSET Roots]
  BY DatasetsAssumption DEF IdleClose
<1>9. \A c \in Closes : close[c].held = {} /\ close[c].purged = {}
  BY DEF IdleClose
<1> QED BY <1>1, <1>2, <1>3, <1>4, <1>5, <1>6, <1>7, <1>8, <1>9 DEF TypeOK, Numbering

LEMMA NumberingInvariant == Spec => [](TypeOK /\ Numbering)
<1>1. TypeOK /\ Numbering /\ [Next]_vars => TypeOK' /\ Numbering'
  <2> SUFFICES ASSUME TypeOK, Numbering, [Next]_vars PROVE TypeOK' /\ Numbering'
    OBVIOUS
  <2>1. CASE UNCHANGED vars
    BY <2>1 DEF vars, TypeOK, Numbering, Shape, DraftIsLast, AssignAt, CreatorAlone, CloseAt, Drafts
  <2> QED BY <2>1, AssignSteps, UnassignSteps, RateAndSpawnSteps, CloseSteps DEF Next
<1> QED BY <1>1, NumberingInit, PTL DEF Spec

(* Every request keeps the tables and its own record well formed.          *)
THEOREM TypeCorrect == Spec => []TypeOK
  BY NumberingInvariant, PTL

(* Whatever assignments and closes race, a dataset has one draft at most   *)
(* and it is its last version.                                             *)
THEOREM OneDraft == Spec => []DraftIsLast
<1>1. Numbering => DraftIsLast
  BY DEF Numbering
<1> QED BY <1>1, NumberingInvariant, PTL

-----------------------------------------------------------------------------
(* Row locks.  A request that read a root FOR SHARE keeps it out of every  *)
(* close until its insert commits, and a close keeps the roots it holds    *)
(* out of reach of the next one.                                           *)

SharedIsFree ==
    \A p \in Spawns : spawn[p].pc = "insert" =>
        spawn[p].root \in Roots /\ spawn[p].root \notin locked /\ ~HeldByClose(spawn[p].root)

(* While the second statement works, what is below a member root it holds  *)
(* is locked, held or still to do, and it takes children only.             *)
Descent ==
    \A c \in Closes : close[c].pc = "children" =>
        /\ close[c].todo \subseteq Children
        /\ Below(close[c].held \cap close[c].seen) \subseteq locked \cup close[c].held \cup close[c].todo

Locking == SharedIsFree /\ Descent

LEMMA LockingInit == Init => Locking
  BY DEF Init, Locking, SharedIsFree, Descent, IdleSpawn, IdleClose

LEMMA LockingSpawn ==
  ASSUME TypeOK, Locking, NEW p \in Spawns, Spawning(p)
  PROVE  Locking'
<1>1. close' = close /\ locked' = locked
  BY DEF Spawning, LockRoot, InsertChild, AbortSpawn
<1>2. \A r : HeldByClose(r)' <=> HeldByClose(r)
  BY <1>1 DEF HeldByClose
<1>3. SharedIsFree'
  BY <1>1, <1>2 DEF Spawning, LockRoot, InsertChild, AbortSpawn, ShareGranted, Locking, SharedIsFree,
                    TypeOK, IdleSpawn
<1>4. Descent'
  <2>1. CASE tree' = tree
    BY <1>1, <2>1 DEF Locking, Descent, Below
  <2>2. ASSUME NEW k \in Children, InsertChild(p, k) PROVE Descent'
    <3>1. ~HeldByClose(spawn[p].root)
      BY <2>2 DEF InsertChild, Locking, SharedIsFree
    <3>2. \A c \in Closes : Below(close[c].held \cap close[c].seen)' \subseteq Below(close[c].held \cap close[c].seen)
      BY <1>1, <2>2, <3>1 DEF InsertChild, HeldByClose, Below, TypeOK
    <3> QED BY <1>1, <3>2 DEF Locking, Descent
  <2> QED BY <2>1, <2>2 DEF Spawning, LockRoot, AbortSpawn
<1> QED BY <1>3, <1>4 DEF Locking

(* A close begins, fails and commits with no row held.                     *)
LEMMA FreshClose ==
  ASSUME TypeOK, NEW c \in Closes, close' = Released(c) \/ \E d \in Sets : StartClose(c, d)
  PROVE  close'[c].held = {} /\ close'[c].pc \in {"idle", "begin"}
<1>1. ASSUME NEW to, close' = [close EXCEPT ![c] = to] PROVE close'[c] = to
  BY <1>1 DEF TypeOK
<1>2. CASE close' = Released(c)
  BY <1>1, <1>2 DEF Released, IdleClose
<1>3. ASSUME NEW d \in Sets, StartClose(c, d) PROVE close'[c].held = {} /\ close'[c].pc = "begin"
  <2>1. close' = [close EXCEPT ![c] = [IdleClose EXCEPT !.pc = "begin", !.ds = d, !.num = Latest(Drafts(d))]]
    BY <1>3 DEF StartClose
  <2>2. close'[c] = [IdleClose EXCEPT !.pc = "begin", !.ds = d, !.num = Latest(Drafts(d))]
    BY <2>1, <1>1
  <2> QED BY <2>2 DEF IdleClose
<1> QED BY <1>2, <1>3

LEMMA LockingClose ==
  ASSUME TypeOK, Locking, NEW c \in Closes, Closing(c)
  PROVE  Locking'
<1>1. spawn' = spawn /\ tree' = tree
  BY DEF Closing, StartClose, CheckDraft, PurgeMembers, FlipStatus, LockRow, ScanChildren,
         CommitClose, AbortClose
<1>2. \A b \in Closes : b # c => close'[b] = close[b]
  <2>0. DOMAIN close = Closes
    BY DEF TypeOK
  <2> SUFFICES ASSUME NEW b \in Closes, b # c PROVE close'[b] = close[b]
    OBVIOUS
  <2>1. CASE \E d \in Sets : StartClose(c, d)
    BY <2>0, <2>1 DEF StartClose
  <2>2. CASE CheckDraft(c) \/ CommitClose(c) \/ AbortClose(c)
    BY <2>0, <2>2 DEF CheckDraft, CommitClose, AbortClose, Released
  <2>3. CASE PurgeMembers(c)
    BY <2>0, <2>3 DEF PurgeMembers
  <2>4. CASE FlipStatus(c)
    BY <2>0, <2>4 DEF FlipStatus
  <2>5. CASE \E s \in Sessions : LockRow(c, s)
    BY <2>0, <2>5 DEF LockRow
  <2>6. CASE ScanChildren(c)
    BY <2>0, <2>6 DEF ScanChildren
  <2> QED BY <2>1, <2>2, <2>3, <2>4, <2>5, <2>6 DEF Closing
<1>3. locked \subseteq locked' /\ locked' \subseteq locked \cup close[c].held
  BY DEF Closing, StartClose, CheckDraft, PurgeMembers, FlipStatus, LockRow, ScanChildren,
         CommitClose, AbortClose
<1>4. ASSUME NEW s \in close'[c].held PROVE s \in close[c].held \/ \A p \in Spawns : spawn[p].root # s
  <2>1. ASSUME NEW r \in Sessions, LockRow(c, r), s \notin close[c].held
        PROVE  \A p \in Spawns : spawn[p].root # s
    <3>1. close'[c].held \subseteq close[c].held \cup {r}
      BY <2>1 DEF LockRow, TypeOK
    <3>2. s = r
      BY <1>4, <2>1, <3>1
    <3> QED BY <2>1, <3>2 DEF LockRow, RowFree
  <2>2. CASE close'[c].held \subseteq close[c].held
    BY <1>4, <2>2
  <2>3. close'[c].held \subseteq close[c].held \/ \E r \in Sessions : LockRow(c, r)
    <3>1. CASE close' = Released(c) \/ \E d \in Sets : StartClose(c, d)
      BY <3>1, FreshClose
    <3>2. CASE PurgeMembers(c) \/ FlipStatus(c) \/ ScanChildren(c)
      BY <3>2 DEF PurgeMembers, FlipStatus, ScanChildren, TypeOK
    <3>3. CASE close' = [close EXCEPT ![c].pc = "purge"]
      BY <3>3 DEF TypeOK
    <3> QED BY <3>1, <3>2, <3>3 DEF Closing, CheckDraft, CommitClose, AbortClose
  <2> QED BY <2>1, <2>2, <2>3
<1>5. SharedIsFree'
  BY <1>1, <1>2, <1>3, <1>4 DEF Locking, SharedIsFree, HeldByClose
<1>6. ASSUME close'[c].pc = "children"
      PROVE  /\ close'[c].todo \subseteq Children
             /\ Below(close'[c].held \cap close'[c].seen) \subseteq locked \cup close'[c].held \cup close'[c].todo
  <2>1. CASE ScanChildren(c)
    <3>1. /\ close'[c].todo = ToDescend(c) /\ close'[c].seen = Members(c) /\ close'[c].held = close[c].held
      BY <2>1 DEF ScanChildren, TypeOK
    <3> QED BY <3>1 DEF ToDescend, Below
  <2>2. CASE close[c].pc = "children" /\ \E s \in Sessions : LockRow(c, s)
    <3>1. PICK s \in close[c].todo : LockRow(c, s)
      BY <2>2 DEF LockRow
    <3>2. /\ close'[c].todo = close[c].todo \ {s} /\ close'[c].seen = close[c].seen
          /\ close'[c].held = IF s \in locked THEN close[c].held ELSE close[c].held \cup {s}
      BY <3>1 DEF LockRow, TypeOK
    <3>3. s \in Children /\ close[c].seen \subseteq Roots
      BY <2>2, <3>1 DEF Locking, Descent, TypeOK
    <3>4. close'[c].held \cap close'[c].seen = close[c].held \cap close[c].seen
      BY <3>2, <3>3, DatasetsAssumption
    <3> QED BY <2>2, <3>2, <3>4 DEF Locking, Descent
  <2>3. ScanChildren(c) \/ (close[c].pc = "children" /\ \E s \in Sessions : LockRow(c, s))
    <3>1. CASE close' = Released(c) \/ \E d \in Sets : StartClose(c, d)
      BY <1>6, <3>1, FreshClose
    <3>2. CASE PurgeMembers(c) \/ FlipStatus(c) \/ close' = [close EXCEPT ![c].pc = "purge"]
      BY <1>6, <3>2 DEF PurgeMembers, FlipStatus, TypeOK
    <3>3. ASSUME NEW s \in Sessions, LockRow(c, s) PROVE close[c].pc = "children"
      <4> DEFINE was == close[c]
                 to == [was EXCEPT !.todo = @ \ {s}, !.held = IF s \in locked THEN @ ELSE @ \cup {s}]
      <4>1. close' = [close EXCEPT ![c] = to]
        BY <3>3 DEF LockRow
      <4>2. to.pc = was.pc
        BY DEF TypeOK
      <4> HIDE DEF to
      <4>3. close'[c].pc = close[c].pc
        BY <4>1, <4>2 DEF TypeOK
      <4> QED BY <1>6, <4>3
    <3> QED BY <3>1, <3>2, <3>3 DEF Closing, CheckDraft, CommitClose, AbortClose
  <2> QED BY <2>1, <2>2, <2>3
<1>7. Descent'
  BY <1>1, <1>2, <1>3, <1>6 DEF Locking, Descent, Below
<1> QED BY <1>5, <1>7 DEF Locking

LEMMA LockingInvariant == Spec => [](TypeOK /\ Locking)
<1>1. TypeOK /\ Locking /\ [Next]_vars => Locking'
  <2> SUFFICES ASSUME TypeOK, Locking, [Next]_vars PROVE Locking'
    OBVIOUS
  <2>1. CASE spawn' = spawn /\ close' = close /\ locked' = locked /\ tree' = tree
    BY <2>1 DEF Locking, SharedIsFree, Descent, HeldByClose, Below
  <2>2. (\E a \in Assigns : Assigning(a)) \/ (\E u \in Unassigns : Unassigning(u))
        \/ (\E r \in Raters : Rating(r)) \/ UNCHANGED vars
        => spawn' = spawn /\ close' = close /\ locked' = locked /\ tree' = tree
    BY DEF Assigning, StartAssign, CheckOtherSet, FindDraft, CreateDraft, CreateRefused,
           InheritAndCommit, InsertMember, AbortAssign, Unassigning, StartUnassign, DeleteMember,
           Rating, StartRate, WriteFeedback, vars
  <2> QED BY <2>1, <2>2, LockingSpawn, LockingClose DEF Next
<1> QED BY <1>1, LockingInit, TypeCorrect, PTL DEF Spec

(* No sub-agent session appears under a root that is locked, or that an    *)
(* open close holds.                                                       *)
THEOREM SpawnIsRefused == Spec => NoLateSpawn
<1> DEFINE Refused == \A k \in Children : tree'[k] # tree[k] =>
                          tree'[k] \notin locked /\ ~HeldByClose(tree'[k])
<1>1. TypeOK /\ Locking /\ [Next]_vars => [Refused]_vars
  <2> SUFFICES ASSUME TypeOK, Locking, Next PROVE Refused
    OBVIOUS
  <2>1. ASSUME NEW p \in Spawns, NEW k \in Children, InsertChild(p, k) PROVE Refused
    <3>1. tree' = [tree EXCEPT ![k] = spawn[p].root]
      BY <2>1 DEF InsertChild
    <3>2. spawn[p].root \notin locked /\ ~HeldByClose(spawn[p].root)
      BY <2>1 DEF InsertChild, Locking, SharedIsFree
    <3> QED BY <3>1, <3>2 DEF TypeOK
  <2>2. tree' = tree \/ \E p \in Spawns, k \in Children : InsertChild(p, k)
    BY DEF Next, Assigning, StartAssign, CheckOtherSet, FindDraft, CreateDraft, CreateRefused,
           InheritAndCommit, InsertMember, AbortAssign, Unassigning, StartUnassign, DeleteMember,
           Rating, StartRate, WriteFeedback, Spawning, LockRoot, AbortSpawn, Closing, StartClose,
           CheckDraft, PurgeMembers, FlipStatus, LockRow, ScanChildren, CommitClose, AbortClose
  <2> QED BY <2>1, <2>2
<1> QED BY <1>1, LockingInvariant, PTL DEF Spec, NoLateSpawn

(* A close about to commit has locked every child of the member roots it   *)
(* holds, the ones spawned while its first statement waited included.      *)
THEOREM TreeIsLocked == Spec => []NoChildEscapes
<1>1. TypeOK /\ Locking => NoChildEscapes
  BY DEF Locking, Descent, NoChildEscapes, AllLocked
<1> QED BY <1>1, LockingInvariant, PTL

=============================================================================
