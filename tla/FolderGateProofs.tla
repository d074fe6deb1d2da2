-------------------------- MODULE FolderGateProofs --------------------------
(***************************************************************************)
(* Theorems about FolderGate, for any folders, files, repositories and     *)
(* number of faults.                                                       *)
(***************************************************************************)
EXTENDS FolderGate, SequenceTheorems, TLAPS

-----------------------------------------------------------------------------
(* What holds with any number of pages *)

(* Where a page works on a folder, on the file at next, or not yet.        *)
OnFolder == {"query", "request", "receipt", "check", "sizes", "examine", "write",
             "measure", "seal", "verify", "remember"}

OnFile == {"examine", "write", "measure", "verify"}

Shape(p, pg) ==
  /\ pg.pc \in OnFolder => pg.dir \in Folder
  /\ pg.pc \in OnFile => pg.next \in 1 .. Len(Plan[p])
  /\ pg.pc \notin OnFile \cup {"remember", "forget"} => pg.next = 1
  /\ pg.pc = "check" => pg.rec \in Receipt /\ pg.todo \subseteq DOMAIN pg.rec.sizes

TypeInv == StateOK /\ \A p \in Page : Shape(p, page[p])

-----------------------------------------------------------------------------
(* Pages *)

LEMMA ClosedForm ==
  ASSUME NEW s \in Source
  PROVE  /\ Closed(s) \in PageState
         /\ Closed(s).pc = "closed" /\ Closed(s).flow = "load" /\ Closed(s).base = s
         /\ Closed(s).dir = None /\ Closed(s).next = 1 /\ Closed(s).source = None
         /\ Closed(s).rec = None
BY DEF Closed, PageState, Phase

LEMMA GateForm ==
  ASSUME NEW pg \in PageState, NEW label \in {"again", "choose"}
  PROVE  /\ Gate(pg, label) \in PageState
         /\ Gate(pg, label).pc = "gate" /\ Gate(pg, label).flow = pg.flow
         /\ Gate(pg, label).base = pg.base /\ Gate(pg, label).source = pg.source
         /\ Gate(pg, label).dir = None /\ Gate(pg, label).next = 1
         /\ Gate(pg, label).rec = None
BY DEF Gate, PageState, Phase

LEMMA BoundForm ==
  ASSUME NEW pg \in PageState, NEW d \in Folder \cup {None}
  PROVE  /\ Bound(pg, d) \in PageState
         /\ Bound(pg, d).pc = "bound" /\ Bound(pg, d).flow = "load"
         /\ Bound(pg, d).base = pg.base /\ Bound(pg, d).source = d
         /\ Bound(pg, d).dir = None /\ Bound(pg, d).next = 1
         /\ Bound(pg, d).rec = None
BY DEF Bound, Closed, PageState, Phase

(* The file at next, and its length.                                       *)
LEMMA FileForm ==
  ASSUME NEW p \in Page, NEW n \in 1 .. Len(Plan[p])
  PROVE  Plan[p][n] \in File /\ Plan[p][n] \in FilesOf(p)
<1>1. Plan[p] \in Seq(File)
  BY GateAssumption
<1>. QED  BY <1>1 DEF FilesOf

LEMMA PlanForm ==
  ASSUME NEW p \in Page
  PROVE  1 \in 1 .. Len(Plan[p]) /\ Len(Plan[p]) \in Nat /\ FilesOf(p) \subseteq File
<1>1. Plan[p] \in Seq(File) /\ Plan[p] # <<>>
  BY GateAssumption
<1>. QED  BY <1>1, EmptySeq DEF FilesOf

LEMMA SizeForm ==
  ASSUME NEW s \in Source, NEW f \in File
  PROVE  /\ Size[s][f] \in Nat /\ Size[s][f] # 0 /\ Size[s][f] \in Length
         /\ Published(s, f) \in Copy
BY GateAssumption DEF Length, Published, Copy

(* A page that becomes one of the right shape.                             *)
LEMMA PageStep ==
  ASSUME TypeInv, NEW p \in Page, NEW pg \in PageState, Shape(p, pg), Become(p, pg)
  PROVE  /\ page' \in [Page -> PageState]
         /\ \A q \in Page : Shape(q, page[q])'
         /\ page'[p] = pg /\ \A q \in Page : q # p => page'[q] = page[q]
BY DEF Become, TypeInv, StateOK, Shape

(* A page that does so and leaves everything else alone.                   *)
LEMMA PageStepOnly ==
  ASSUME TypeInv, NEW p \in Page, NEW pg \in PageState, Shape(p, pg), Become(p, pg),
         disk' \in [Folder -> [File -> Copy \cup {None}]], faults' \in 0 .. MaxFaults,
         remembered' \in Folder \cup {None}, granted' \subseteq Folder,
         receipt' \in [Folder -> Receipt \cup {None}], UNCHANGED gone
  PROVE  TypeInv'
BY PageStep DEF TypeInv, StateOK

(* What the other variables are when a step leaves them alone.             *)
LEMMA RestTypes ==
  ASSUME TypeInv
  PROVE  /\ UNCHANGED disk => disk' \in [Folder -> [File -> Copy \cup {None}]]
         /\ UNCHANGED faults => faults' \in 0 .. MaxFaults
         /\ Fault => faults' \in 0 .. MaxFaults
         /\ UNCHANGED remembered => remembered' \in Folder \cup {None}
         /\ UNCHANGED granted => granted' \subseteq Folder
         /\ UNCHANGED receipt => receipt' \in [Folder -> Receipt \cup {None}]
BY GateAssumption DEF TypeInv, StateOK, Fault

(* Where bindFolder's outcomes lead.                                       *)
LEMMA RefusedForm ==
  ASSUME NEW p \in Page, NEW pg \in PageState
  PROVE  Refused(pg) \in PageState /\ Shape(p, Refused(pg))
<1>1. pg.source \in Folder \cup {None}
  BY DEF PageState
<1>. QED  BY <1>1, GateForm, BoundForm DEF Refused, Shape, OnFolder, OnFile

LEMMA ThrownForm ==
  ASSUME NEW p \in Page, NEW pg \in PageState
  PROVE  Thrown(pg) \in PageState /\ Shape(p, Thrown(pg))
<1>1. pg.source \in Folder \cup {None}
  BY DEF PageState
<1>2. CASE pg.flow = "open"
  BY <1>2 DEF Thrown, Shape, OnFolder, OnFile, PageState, Phase
<1>3. CASE pg.flow # "open"
  BY <1>1, <1>3, BoundForm DEF Thrown, Shape, OnFolder, OnFile
<1>. QED  BY <1>2, <1>3

LEMMA UnfilledForm ==
  ASSUME NEW p \in Page, NEW pg \in PageState, pg.dir \in Folder, pg.next = 1
  PROVE  Unfilled(pg) \in PageState /\ Shape(p, Unfilled(pg))
<1>1. CASE pg.flow = "load"
  BY <1>1, GateForm DEF Unfilled, Shape, OnFolder, OnFile
<1>2. CASE pg.flow # "load"
  BY <1>2 DEF Unfilled, Shape, OnFolder, OnFile, PageState, Phase
<1>. QED  BY <1>1, <1>2

LEMMA FilledForm ==
  ASSUME NEW p \in Page, NEW pg \in PageState, pg.dir \in Folder, pg.next = 1
  PROVE  Filled(pg) \in PageState /\ Shape(p, Filled(pg))
<1>1. CASE pg.flow = "load"
  BY <1>1, BoundForm DEF Filled, Shape, OnFolder, OnFile
<1>2. CASE pg.flow # "load"
  BY <1>2, PlanForm DEF Filled, Shape, OnFolder, OnFile, PageState, Phase
<1>. QED  BY <1>1, <1>2

LEMMA NextOrSealForm ==
  ASSUME TypeInv, NEW p \in Page, page[p].pc \in OnFile
  PROVE  NextOrSeal(p) \in PageState /\ Shape(p, NextOrSeal(p))
<1>1. page[p] \in PageState /\ page[p].dir \in Folder /\ page[p].next \in 1 .. Len(Plan[p])
  BY DEF TypeInv, StateOK, Shape, OnFile, OnFolder
<1>2. Len(Plan[p]) \in Nat
  BY PlanForm
<1>3. CASE page[p].next < Len(Plan[p])
  <2> DEFINE pg == [page[p] EXCEPT !.pc = "examine", !.next = @ + 1]
  <2>1. page[p].next + 1 \in 1 .. Len(Plan[p]) /\ page[p].next + 1 \in Nat
    BY <1>1, <1>2, <1>3
  <2>2. pg \in PageState /\ pg.pc = "examine" /\ pg.dir = page[p].dir /\ pg.next = page[p].next + 1
    BY <1>1, <2>1 DEF PageState, Phase
  <2>3. Shape(p, pg)
    BY <1>1, <2>1, <2>2 DEF Shape, OnFolder, OnFile
  <2>. QED  BY <1>3, <2>2, <2>3 DEF NextOrSeal
<1>4. CASE ~ (page[p].next < Len(Plan[p]))
  BY <1>1, <1>4 DEF NextOrSeal, Shape, OnFolder, OnFile, PageState, Phase
<1>. QED  BY <1>3, <1>4

-----------------------------------------------------------------------------
(* TypeInv, action by action *)

LEMMA InitTypes == Init => TypeInv
<1>1. SUFFICES ASSUME Init PROVE TypeInv
  OBVIOUS
<1>2. page \in {pg \in [Page -> {Closed(s) : s \in Source}] : \A p \in Page : pg[p].base \in Bases[p]}
  BY <1>1 DEF Init
<1>3. \A p \in Page : \E s \in Source : page[p] = Closed(s)
  BY <1>2
<1>4. page \in [Page -> PageState]
  BY <1>2, ClosedForm
<1>5. ASSUME NEW p \in Page, NEW s \in Source PROVE Shape(p, Closed(s))
  BY ClosedForm DEF Shape, OnFolder, OnFile
<1>6. \A p \in Page : Shape(p, page[p])
  BY <1>3, <1>5
<1>. QED  BY <1>1, <1>4, <1>6, GateAssumption DEF Init, TypeInv, StateOK

LEMMA BasesForm ==
  ASSUME NEW p \in Page
  PROVE  Bases[p] \subseteq Source
BY GateAssumption

(* Steps that only move the page on.                                       *)
LEMMA TypesVisit ==
  ASSUME TypeInv, NEW p \in Page, Visit(p)
  PROVE  TypeInv'
<1>1. PICK s \in Source : Become(p, [Closed(s) EXCEPT !.pc = "load"])
  BY BasesForm DEF Visit
<1> DEFINE pg == [Closed(s) EXCEPT !.pc = "load"]
<1>2. pg \in PageState /\ Shape(p, pg)
  BY ClosedForm DEF PageState, Phase, Shape, OnFolder, OnFile
<1>. QED  BY <1>1, <1>2, RestTypes, PageStepOnly DEF Visit, storage

(* What a page at pc has.                                                  *)
LEMMA PageFacts ==
  ASSUME TypeInv, NEW p \in Page
  PROVE  /\ page[p] \in PageState /\ page[p].base \in Source /\ page[p].source \in Folder \cup {None}
         /\ page[p].offer \in Folder \cup {None} /\ page[p].dir \in Folder \cup {None}
         /\ page[p].pc \in OnFolder => page[p].dir \in Folder
         /\ page[p].pc \in OnFile => page[p].next \in 1 .. Len(Plan[p])
         /\ page[p].pc \notin OnFile \cup {"remember", "forget"} => page[p].next = 1
         /\ page[p].pc = "check" => page[p].rec \in Receipt /\ page[p].todo \subseteq DOMAIN page[p].rec.sizes
BY DEF TypeInv, StateOK, Shape, PageState

LEMMA TypesLoadRemembered ==
  ASSUME TypeInv, NEW p \in Page, LoadRemembered(p)
  PROVE  TypeInv'
<1>1. page[p] \in PageState /\ page[p].next = 1 /\ remembered \in Folder \cup {None}
  BY PageFacts DEF LoadRemembered, At, TypeInv, StateOK, OnFile
<1>2. CASE remembered = None
  <2>1. Gate(page[p], "choose") \in PageState /\ Shape(p, Gate(page[p], "choose"))
    BY <1>1, GateForm DEF Shape, OnFolder, OnFile
  <2>. QED  BY <1>2, <2>1, RestTypes, PageStepOnly DEF LoadRemembered, storage
<1>3. CASE remembered # None
  <2> DEFINE pg == [page[p] EXCEPT !.pc = "query", !.offer = remembered, !.dir = remembered]
  <2>1. pg \in PageState /\ Shape(p, pg)
    BY <1>1, <1>3 DEF PageState, Phase, Shape, OnFolder, OnFile
  <2>. QED  BY <1>3, <2>1, RestTypes, PageStepOnly DEF LoadRemembered, storage
<1>. QED  BY <1>2, <1>3

LEMMA TypesQueryPermission ==
  ASSUME TypeInv, NEW p \in Page, QueryPermission(p)
  PROVE  TypeInv'
<1>1. page[p] \in PageState /\ page[p].next = 1 /\ page[p].dir \in Folder
  BY PageFacts DEF QueryPermission, At, OnFile, OnFolder
<1>2. CASE Dir(p) \in granted
  <2> DEFINE pg == [page[p] EXCEPT !.pc = "receipt"]
  <2>1. pg \in PageState /\ Shape(p, pg)
    BY <1>1 DEF PageState, Phase, Shape, OnFolder, OnFile
  <2>. QED  BY <1>2, <2>1, RestTypes, PageStepOnly DEF QueryPermission, storage
<1>3. CASE Dir(p) \notin granted
  <2>1. Gate(page[p], "again") \in PageState /\ Shape(p, Gate(page[p], "again"))
    BY <1>1, GateForm DEF Shape, OnFolder, OnFile
  <2>. QED  BY <1>3, <2>1, RestTypes, PageStepOnly DEF QueryPermission, storage
<1>. QED  BY <1>2, <1>3

LEMMA TypesClickAction ==
  ASSUME TypeInv, NEW p \in Page, ClickAction(p)
  PROVE  TypeInv'
<1>1. page[p] \in PageState /\ page[p].next = 1 /\ page[p].offer \in Folder \cup {None}
  BY PageFacts DEF ClickAction, At, OnFile
<1> DEFINE pg == [page[p] EXCEPT !.flow = "open", !.dir = page[p].offer,
                                 !.pc = IF page[p].offer = None THEN "pick" ELSE "request"]
<1>2. pg \in PageState /\ Shape(p, pg)
  BY <1>1 DEF PageState, Phase, Shape, OnFolder, OnFile
<1>. QED  BY <1>2, RestTypes, PageStepOnly DEF ClickAction, storage

LEMMA TypesClickChange ==
  ASSUME TypeInv, NEW p \in Page, ClickChange(p)
  PROVE  TypeInv'
<1>1. page[p] \in PageState /\ page[p].next = 1
  BY PageFacts DEF ClickChange, At, OnFile
<1> DEFINE pg == [page[p] EXCEPT !.flow = "change", !.pc = "pick"]
<1>2. pg \in PageState /\ Shape(p, pg)
  BY <1>1 DEF PageState, Phase, Shape, OnFolder, OnFile
<1>. QED  BY <1>2, RestTypes, PageStepOnly DEF ClickChange, storage

LEMMA TypesForget ==
  ASSUME TypeInv, NEW p \in Page, Forget(p) \/ HandleKept(p) \/ HandleUnread(p)
  PROVE  TypeInv'
<1>1. page[p] \in PageState
  BY PageFacts
<1>2. Gate(page[p], "choose") \in PageState /\ Shape(p, Gate(page[p], "choose"))
  BY <1>1, GateForm DEF Shape, OnFolder, OnFile
<1>3. /\ remembered' \in Folder \cup {None} /\ faults' \in 0 .. MaxFaults
      /\ UNCHANGED <<disk, gone, receipt, granted>> /\ Become(p, Gate(page[p], "choose"))
  BY RestTypes DEF Forget, HandleKept, HandleUnread, storage
<1>. QED  BY <1>2, <1>3, RestTypes, PageStepOnly

LEMMA TypesPick ==
  ASSUME TypeInv, NEW p \in Page, Pick(p)
  PROVE  TypeInv'
<1>1. page[p] \in PageState /\ page[p].next = 1
  BY PageFacts DEF Pick, At, OnFile
<1>2. PICK d \in Folder : /\ granted' = granted \cup {d}
                         /\ Become(p, [page[p] EXCEPT !.pc = "request", !.dir = d])
  BY DEF Pick
<1> DEFINE pg == [page[p] EXCEPT !.pc = "request", !.dir = d]
<1>3. pg \in PageState /\ Shape(p, pg)
  BY <1>1 DEF PageState, Phase, Shape, OnFolder, OnFile
<1>4. granted' \subseteq Folder
  BY <1>2 DEF TypeInv, StateOK
<1>. QED  BY <1>2, <1>3, <1>4, RestTypes, PageStepOnly DEF Pick, storage

LEMMA TypesRequestPermission ==
  ASSUME TypeInv, NEW p \in Page, RequestPermission(p)
  PROVE  TypeInv'
<1>1. page[p] \in PageState /\ page[p].next = 1 /\ page[p].dir \in Folder
  BY PageFacts DEF RequestPermission, At, OnFile, OnFolder
<1> DEFINE pg == [page[p] EXCEPT !.pc = "receipt"]
<1>2. pg \in PageState /\ Shape(p, pg)
  BY <1>1 DEF PageState, Phase, Shape, OnFolder, OnFile
<1>3. granted' \subseteq Folder
  BY <1>1 DEF RequestPermission, Dir, TypeInv, StateOK
<1>. QED  BY <1>2, <1>3, RestTypes, PageStepOnly DEF RequestPermission, storage

LEMMA TypesDecline ==
  ASSUME TypeInv, NEW p \in Page, Decline(p)
  PROVE  TypeInv'
<1>1. Refused(page[p]) \in PageState /\ Shape(p, Refused(page[p]))
  BY PageFacts, RefusedForm
<1>. QED  BY <1>1, RestTypes, PageStepOnly DEF Decline, storage

LEMMA TypesReadReceipt ==
  ASSUME TypeInv, NEW p \in Page, ReadReceipt(p)
  PROVE  TypeInv'
<1> DEFINE rec == receipt[Dir(p)]
<1>1. page[p] \in PageState /\ page[p].next = 1 /\ page[p].dir \in Folder
  BY PageFacts DEF ReadReceipt, At, OnFile, OnFolder
<1>2. rec \in Receipt \cup {None}
  BY <1>1 DEF Dir, TypeInv, StateOK
<1>3. CASE Covers(rec, p)
  <2> DEFINE pg == [page[p] EXCEPT !.pc = "check", !.rec = rec, !.todo = DOMAIN rec.sizes]
  <2>1. rec \in Receipt /\ DOMAIN rec.sizes \subseteq File
    BY <1>2, <1>3 DEF Covers, Receipt
  <2>2. pg \in PageState /\ Shape(p, pg)
    BY <1>1, <2>1 DEF PageState, Phase, Shape, OnFolder, OnFile
  <2>. QED  BY <1>3, <2>2, RestTypes, PageStepOnly DEF ReadReceipt, storage
<1>4. CASE ~ Covers(rec, p)
  <2>1. Unfilled(page[p]) \in PageState /\ Shape(p, Unfilled(page[p]))
    BY <1>1, UnfilledForm
  <2>. QED  BY <1>4, <2>1, RestTypes, PageStepOnly DEF ReadReceipt, storage
<1>. QED  BY <1>3, <1>4

LEMMA TypesCheckFile ==
  ASSUME TypeInv, NEW p \in Page, CheckFile(p)
  PROVE  TypeInv'
<1>1. /\ page[p] \in PageState /\ page[p].pc = "check" /\ page[p].next = 1
      /\ page[p].dir \in Folder /\ page[p].rec \in Receipt
      /\ page[p].todo \subseteq DOMAIN page[p].rec.sizes
  BY PageFacts DEF CheckFile, At, OnFile, OnFolder
<1>2. PICK f \in page[p].todo :
        LET pg == [page[p] EXCEPT !.todo = @ \ {f}]
        IN  Become(p, IF ~ LengthIs(Dir(p), f, pg.rec.sizes[f]) THEN Unfilled(pg)
                      ELSE IF pg.todo = {} THEN Filled(pg)
                      ELSE pg)
  BY DEF CheckFile
<1> DEFINE pg == [page[p] EXCEPT !.todo = @ \ {f}]
<1>3. /\ pg \in PageState /\ pg.dir \in Folder /\ pg.next = 1
      /\ Shape(p, pg)
  BY <1>1 DEF PageState, Phase, Shape, OnFolder, OnFile
<1>4. /\ Unfilled(pg) \in PageState /\ Shape(p, Unfilled(pg))
      /\ Filled(pg) \in PageState /\ Shape(p, Filled(pg))
  BY <1>3, UnfilledForm, FilledForm
<1>5. PICK new \in PageState : Shape(p, new) /\ Become(p, new)
  BY <1>2, <1>3, <1>4
<1>. QED  BY <1>5, RestTypes, PageStepOnly DEF CheckFile, storage

LEMMA TypesVerify ==
  ASSUME TypeInv, NEW p \in Page, Verify(p)
  PROVE  TypeInv'
<1>1. /\ page[p] \in PageState /\ page[p].dir \in Folder
      /\ page[p].next \in 1 .. Len(Plan[p]) /\ Len(Plan[p]) \in Nat
  BY PageFacts, PlanForm DEF Verify, At, OnFile, OnFolder
<1>2. Refused(page[p]) \in PageState /\ Shape(p, Refused(page[p]))
  BY <1>1, RefusedForm
<1>3. CASE page[p].next < Len(Plan[p])
  <2> DEFINE pg == [page[p] EXCEPT !.next = @ + 1]
  <2>1. page[p].next + 1 \in 1 .. Len(Plan[p]) /\ page[p].next + 1 \in Nat
    BY <1>1, <1>3
  <2>2. pg \in PageState /\ pg.pc = "verify" /\ pg.dir = page[p].dir /\ pg.next = page[p].next + 1
    BY <1>1, <2>1 DEF PageState, Verify, At
  <2>3. Shape(p, pg)
    BY <1>1, <2>1, <2>2 DEF Shape, OnFolder, OnFile
  <2>4. Become(p, Refused(page[p])) \/ Become(p, pg)
    BY <1>3 DEF Verify
  <2>. QED  BY <1>2, <2>2, <2>3, <2>4, RestTypes, PageStepOnly DEF Verify, storage
<1>4. CASE ~ (page[p].next < Len(Plan[p]))
  <2> DEFINE pg == [page[p] EXCEPT !.pc = "remember"]
  <2>1. pg \in PageState /\ Shape(p, pg)
    BY <1>1 DEF PageState, Phase, Shape, OnFolder, OnFile
  <2>2. Become(p, Refused(page[p])) \/ Become(p, pg)
    BY <1>4 DEF Verify
  <2>. QED  BY <1>2, <2>1, <2>2, RestTypes, PageStepOnly DEF Verify, storage
<1>. QED  BY <1>3, <1>4

LEMMA UsableForm ==
  ASSUME NEW p \in Page, NEW pg \in PageState, pg.dir \in Folder
  PROVE  /\ Usable(pg) \in PageState /\ Shape(p, Usable(pg)) /\ Usable(pg).dir = None
         /\ Usable(pg).flow = "load" /\ Usable(pg).pc \in {"bound", "load"}
         /\ pg.flow = "open" => Usable(pg).pc = "bound" /\ Usable(pg).source = pg.dir
         /\ pg.flow # "open" => Usable(pg).pc = "load" /\ Usable(pg).source = None
<1>1. CASE pg.flow = "open"
  BY <1>1, BoundForm DEF Usable, Shape, OnFolder, OnFile
<1>2. CASE pg.flow # "open"
  <2>1. pg.base \in Source  BY DEF PageState
  <2>2. Usable(pg) = [Closed(pg.base) EXCEPT !.pc = "load"]  BY <1>2 DEF Usable
  <2>. QED  BY <1>2, <2>1, <2>2, ClosedForm DEF PageState, Phase, Shape, OnFolder, OnFile
<1>. QED  BY <1>1, <1>2

LEMMA TypesRemember ==
  ASSUME TypeInv, NEW p \in Page, Remember(p) \/ HandleUnwritten(p)
  PROVE  TypeInv'
<1>1. page[p] \in PageState /\ page[p].dir \in Folder
  BY PageFacts DEF Remember, HandleUnwritten, At, OnFolder
<1>2. /\ remembered' \in Folder \cup {None} /\ Become(p, Usable(page[p]))
      /\ UNCHANGED <<disk, gone, receipt, granted, faults>>
  BY <1>1, RestTypes DEF Remember, HandleUnwritten, Dir, storage
<1>. QED  BY <1>1, <1>2, UsableForm, RestTypes, PageStepOnly

LEMMA TypesFetchSizes ==
  ASSUME TypeInv, NEW p \in Page, FetchSizes(p)
  PROVE  TypeInv'
<1>1. page[p] \in PageState /\ page[p].dir \in Folder /\ 1 \in 1 .. Len(Plan[p])
  BY PageFacts, PlanForm DEF FetchSizes, At, OnFolder
<1> DEFINE pg == [page[p] EXCEPT !.pc = "examine", !.next = 1]
<1>2. pg \in PageState /\ Shape(p, pg)
  BY <1>1 DEF PageState, Phase, Shape, OnFolder, OnFile
<1>. QED  BY <1>2, RestTypes, PageStepOnly DEF FetchSizes, storage

(* A page on a file of its plan.                                           *)
LEMMA OnFileFacts ==
  ASSUME TypeInv, NEW p \in Page, page[p].pc \in OnFile
  PROVE  /\ page[p] \in PageState /\ Dir(p) \in Folder /\ page[p].base \in Source
         /\ page[p].next \in 1 .. Len(Plan[p])
         /\ NextFile(p) \in File /\ NextFile(p) \in FilesOf(p)
         /\ Want(p) = Size[page[p].base][NextFile(p)]
         /\ Published(page[p].base, NextFile(p)) \in Copy
<1>1. /\ page[p] \in PageState /\ Dir(p) \in Folder /\ page[p].base \in Source
      /\ page[p].next \in 1 .. Len(Plan[p])
  BY PageFacts DEF Dir, OnFile, OnFolder
<1>2. NextFile(p) \in File /\ NextFile(p) \in FilesOf(p)
  BY <1>1, FileForm DEF NextFile
<1>. QED  BY <1>1, <1>2, SizeForm DEF Want

(* One file of one folder is replaced.                                     *)
LEMMA DiskStep ==
  ASSUME TypeInv, NEW d \in Folder, NEW f \in File, NEW copy \in Copy \cup {None},
         disk' = [disk EXCEPT ![d][f] = copy]
  PROVE  /\ disk' \in [Folder -> [File -> Copy \cup {None}]]
         /\ disk'[d][f] = copy
         /\ \A e \in Folder, g \in File : (e # d \/ g # f) => disk'[e][g] = disk[e][g]
BY DEF TypeInv, StateOK

LEMMA TypesExamine ==
  ASSUME TypeInv, NEW p \in Page, Examine(p)
  PROVE  TypeInv'
<1>1. page[p].pc = "examine"
  BY DEF Examine, At
<1>2. /\ page[p] \in PageState /\ Dir(p) \in Folder /\ page[p].base \in Source
      /\ page[p].next \in 1 .. Len(Plan[p]) /\ NextFile(p) \in File
  BY <1>1, OnFileFacts DEF OnFile
<1>3. NextOrSeal(p) \in PageState /\ Shape(p, NextOrSeal(p))
  BY <1>1, NextOrSealForm DEF OnFile
<1>4. Thrown(page[p]) \in PageState /\ Shape(p, Thrown(page[p]))
  BY <1>2, ThrownForm
<1> DEFINE pg  == [page[p] EXCEPT !.pc = "write"]
           new == [from |-> page[p].base, size |-> 0]
<1>5. pg \in PageState /\ Shape(p, pg)
  BY <1>2 DEF PageState, Phase, Shape, OnFolder, OnFile, Dir
<1>6. new \in Copy
  BY <1>2 DEF Copy
<1>7. UNCHANGED <<gone, receipt, remembered, granted, faults>>
  BY DEF Examine
<1>8. \/ Become(p, NextOrSeal(p)) \/ Become(p, Thrown(page[p])) \/ Become(p, pg)
  BY DEF Examine
<1>9. UNCHANGED disk \/ disk' = [disk EXCEPT ![Dir(p)][NextFile(p)] = new]
  BY DEF Examine
<1>10. disk' \in [Folder -> [File -> Copy \cup {None}]]
  BY <1>2, <1>6, <1>9, DiskStep, RestTypes
<1>. QED  BY <1>3, <1>4, <1>5, <1>7, <1>8, <1>10, RestTypes, PageStepOnly

LEMMA TypesDownload ==
  ASSUME TypeInv, NEW p \in Page, Download(p)
  PROVE  TypeInv'
<1>1. /\ page[p] \in PageState /\ Dir(p) \in Folder
      /\ page[p].next \in 1 .. Len(Plan[p]) /\ NextFile(p) \in File
      /\ Published(page[p].base, NextFile(p)) \in Copy
  BY OnFileFacts DEF Download, At, OnFile
<1> DEFINE pg == [page[p] EXCEPT !.pc = "measure"]
<1>2. pg \in PageState /\ Shape(p, pg)
  BY <1>1 DEF PageState, Phase, Shape, OnFolder, OnFile, Dir
<1>3. disk' \in [Folder -> [File -> Copy \cup {None}]]
  BY <1>1, DiskStep DEF Download
<1>. QED  BY <1>2, <1>3, RestTypes, PageStepOnly DEF Download

LEMMA TypesShortWrite ==
  ASSUME TypeInv, NEW p \in Page, ShortWrite(p)
  PROVE  TypeInv'
<1>1. /\ page[p] \in PageState /\ Dir(p) \in Folder /\ page[p].base \in Source
      /\ page[p].next \in 1 .. Len(Plan[p]) /\ NextFile(p) \in File
  BY OnFileFacts DEF ShortWrite, At, OnFile
<1> DEFINE pg == [page[p] EXCEPT !.pc = "measure"]
<1>2. pg \in PageState /\ Shape(p, pg)
  BY <1>1 DEF PageState, Phase, Shape, OnFolder, OnFile, Dir
<1>3. PICK n \in Partial :
        disk' = [disk EXCEPT ![Dir(p)][NextFile(p)] = [from |-> page[p].base, size |-> n]]
  BY DEF ShortWrite
<1>4. [from |-> page[p].base, size |-> n] \in Copy
  BY <1>1, GateAssumption DEF Copy
<1>5. disk' \in [Folder -> [File -> Copy \cup {None}]]
  BY <1>1, <1>3, <1>4, DiskStep
<1>. QED  BY <1>2, <1>5, RestTypes, PageStepOnly DEF ShortWrite

LEMMA TypesDownloadFails ==
  ASSUME TypeInv, NEW p \in Page, DownloadFails(p)
  PROVE  TypeInv'
<1>1. Thrown(page[p]) \in PageState /\ Shape(p, Thrown(page[p]))
  BY PageFacts, ThrownForm
<1>. QED  BY <1>1, RestTypes, PageStepOnly DEF DownloadFails, storage

LEMMA TypesMeasure ==
  ASSUME TypeInv, NEW p \in Page, Measure(p)
  PROVE  TypeInv'
<1>1. NextOrSeal(p) \in PageState /\ Shape(p, NextOrSeal(p))
  BY NextOrSealForm DEF Measure, At, OnFile
<1>2. Thrown(page[p]) \in PageState /\ Shape(p, Thrown(page[p]))
  BY PageFacts, ThrownForm
<1>3. Become(p, NextOrSeal(p)) \/ Become(p, Thrown(page[p]))
  BY DEF Measure
<1>. QED  BY <1>1, <1>2, <1>3, RestTypes, PageStepOnly DEF Measure, storage

LEMMA TypesSeal ==
  ASSUME TypeInv, NEW p \in Page, Seal(p)
  PROVE  TypeInv'
<1>1. /\ page[p] \in PageState /\ page[p].dir \in Folder /\ page[p].base \in Source
      /\ page[p].next = 1 /\ 1 \in 1 .. Len(Plan[p]) /\ FilesOf(p) \subseteq File
  BY PageFacts, PlanForm DEF Seal, At, OnFile, OnFolder
<1> DEFINE pg  == [page[p] EXCEPT !.pc = "verify"]
           rec == [source |-> page[p].base, sizes |-> [f \in FilesOf(p) |-> Size[page[p].base][f]]]
<1>2. pg \in PageState /\ Shape(p, pg)
  BY <1>1 DEF PageState, Phase, Shape, OnFolder, OnFile
<1>3. rec \in Receipt
  <2>1. \A f \in FilesOf(p) : Size[page[p].base][f] \in Length
    BY <1>1, SizeForm
  <2>2. rec.sizes \in [FilesOf(p) -> Length] /\ FilesOf(p) \in SUBSET File
    BY <1>1, <2>1
  <2>3. rec.sizes \in UNION {[S -> Length] : S \in SUBSET File}
    BY <2>2
  <2>. QED  BY <1>1, <2>3 DEF Receipt
<1>4. receipt' \in [Folder -> Receipt \cup {None}]
  BY <1>3 DEF Seal, TypeInv, StateOK
<1>. QED  BY <1>2, <1>4, RestTypes, PageStepOnly DEF Seal

(* Steps that close a page or load it again.                               *)
LEMMA TypesClosing ==
  ASSUME TypeInv, NEW p \in Page, Reload(p) \/ Leave(p) \/ Crash(p)
  PROVE  TypeInv'
<1>1. page[p].base \in Source
  BY PageFacts
<1> DEFINE pg == [Closed(page[p].base) EXCEPT !.pc = "load"]
<1>2. /\ pg \in PageState /\ Shape(p, pg)
      /\ Closed(page[p].base) \in PageState /\ Shape(p, Closed(page[p].base))
  BY <1>1, ClosedForm DEF PageState, Phase, Shape, OnFolder, OnFile
<1>3. Become(p, pg) \/ Become(p, Closed(page[p].base))
  BY DEF Reload, Leave, Crash
<1>4. /\ UNCHANGED <<disk, gone, receipt, remembered, granted>>
      /\ UNCHANGED faults \/ Fault
  BY DEF Reload, Leave, Crash, storage
<1>. QED  BY <1>2, <1>3, <1>4, RestTypes, PageStepOnly

LEMMA TypesEndSession == TypeInv /\ EndSession => TypeInv'
BY DEF TypeInv, StateOK, EndSession, storage

LEMMA TypesEditFolder ==
  ASSUME TypeInv, NEW d \in Folder, EditFolder(d)
  PROVE  TypeInv'
<1>1. faults' \in 0 .. MaxFaults /\ UNCHANGED <<remembered, granted, page>>
  BY RestTypes DEF EditFolder
<1>2. CASE \E f \in File :
             /\ disk[d][f] # None
             /\ \/ disk' = [disk EXCEPT ![d][f] = None]
                \/ \E n \in Partial : disk' = [disk EXCEPT ![d][f].size = n]
             /\ UNCHANGED <<gone, receipt>>
  <2>1. PICK f \in File :
          /\ disk[d][f] # None
          /\ \/ disk' = [disk EXCEPT ![d][f] = None]
             \/ \E n \in Partial : disk' = [disk EXCEPT ![d][f].size = n]
          /\ UNCHANGED <<gone, receipt>>
    BY <1>2
  <2>2. disk[d][f] \in Copy
    BY <2>1 DEF TypeInv, StateOK
  <2>3. \A n \in Partial : [disk[d][f] EXCEPT !.size = n] \in Copy
    BY <2>2, GateAssumption DEF Copy
  <2>4. PICK copy \in Copy \cup {None} : disk' = [disk EXCEPT ![d][f] = copy]
    BY <2>1, <2>3
  <2>5. disk' \in [Folder -> [File -> Copy \cup {None}]]
    BY <2>4, DiskStep
  <2>. QED  BY <1>1, <2>1, <2>5 DEF TypeInv, StateOK
<1>3. CASE /\ gone' = gone \cup {d}
           /\ disk' = [disk EXCEPT ![d] = [f \in File |-> None]]
           /\ receipt' = [receipt EXCEPT ![d] = None]
  BY <1>1, <1>3 DEF TypeInv, StateOK
<1>. QED  BY <1>2, <1>3 DEF EditFolder

LEMMA TypesStep ==
  ASSUME TypeInv, Step
  PROVE  TypeInv'
<1>1. ASSUME NEW p \in Page, Proceed(p) PROVE TypeInv'
  BY <1>1, TypesVisit, TypesLoadRemembered, TypesQueryPermission, TypesClickAction,
     TypesForget, TypesPick, TypesRequestPermission, TypesReadReceipt, TypesCheckFile,
     TypesVerify, TypesRemember, TypesFetchSizes, TypesExamine, TypesDownload, TypesMeasure,
     TypesSeal DEF Proceed
<1>2. ASSUME NEW p \in Page,
             \/ ClickChange(p) \/ Reload(p) \/ Leave(p)
             \/ Decline(p) \/ ShortWrite(p) \/ DownloadFails(p) \/ Crash(p)
             \/ HandleUnread(p) \/ HandleUnwritten(p) \/ HandleKept(p)
      PROVE  TypeInv'
  BY <1>2, TypesClickChange, TypesClosing, TypesDecline, TypesShortWrite,
     TypesDownloadFails, TypesForget, TypesRemember
<1>. QED  BY <1>1, <1>2, TypesEndSession, TypesEditFolder DEF Step

LEMMA TypesNext == TypeInv /\ [Next]_vars => TypeInv'
<1>1. CASE UNCHANGED vars
  BY <1>1 DEF vars, state, TypeInv, StateOK
<1>. QED  BY <1>1, TypesStep DEF Next

TypesInv == TypeInv /\ disturbed \subseteq Page

(* However many pages share the folders: no page works on a folder it has  *)
(* not got, nor on a file that is not in its plan.                         *)
THEOREM TypeCorrect == Safety => []TypeOK
<1>1. Init => TypesInv
  BY InitTypes DEF Init, TypesInv
<1>2. TypesInv /\ [Next]_vars => TypesInv'
  <2>. SUFFICES ASSUME TypeInv, disturbed \subseteq Page, [Next]_vars
                PROVE  TypeInv' /\ disturbed' \subseteq Page
    BY DEF TypesInv
  <2>1. CASE UNCHANGED vars
    <3>1. disturbed' = disturbed
      BY <2>1 DEF vars
    <3>. QED  BY <3>1, TypesNext
  <2>2. CASE Next
    <3>1. disturbed' \subseteq Page
      BY <2>2 DEF Next, Watch
    <3>. QED  BY <3>1, TypesNext
  <2>. QED  BY <2>1, <2>2
<1>3. TypesInv => TypeOK
  BY DEF TypesInv, TypeInv, TypeOK
<1>. QED  BY <1>1, <1>2, <1>3, PTL DEF Safety

-----------------------------------------------------------------------------
(* One page's step *)

Acts(p) ==
  \/ Proceed(p)
  \/ ClickChange(p) \/ Reload(p) \/ Leave(p)
  \/ Decline(p) \/ ShortWrite(p) \/ DownloadFails(p) \/ Crash(p)
  \/ HandleUnread(p) \/ HandleUnwritten(p) \/ HandleKept(p)

LEMMA NextCases ==
  ASSUME [Next]_vars
  PROVE  \/ \E p \in Page : Acts(p)
         \/ UNCHANGED <<storage, page, remembered>>
         \/ \E d \in Folder : EditFolder(d) /\ UNCHANGED page
BY DEF Next, Step, Acts, EndSession, EditFolder, vars, state, storage

(* It is the page's own.                                                   *)
LEMMA ActsAlone ==
  ASSUME TypeInv, NEW p \in Page, Acts(p)
  PROVE  \A q \in Page : q # p => page'[q] = page[q]
<1>1. \E pg : Become(p, pg)
  BY DEF Acts, Proceed, Visit, LoadRemembered, QueryPermission, ClickAction, ClickChange, Forget,
         Pick, RequestPermission, ReadReceipt, CheckFile, Verify, Remember, FetchSizes, Examine,
         Download, Measure, Seal, Reload, Leave, Decline, ShortWrite, DownloadFails, Crash,
         HandleUnread, HandleUnwritten, HandleKept
<1>. QED  BY <1>1 DEF Become, TypeInv, StateOK

-----------------------------------------------------------------------------
(* Who forgets *)

(* A page runs from a folder or stands at its gate, but not both; and only *)
(* the gate's button leads to forgetting.                                  *)
Keeps(pg) ==
  /\ pg.flow = "open" \/ pg.pc \in {"closed", "load", "query", "gate", "forget"} => pg.source = None
  /\ pg.flow = "load" /\ pg.pc # "bound" => pg.source = None
  /\ pg.pc \in {"pick", "request"} => pg.flow # "load"

KeepInv == TypeInv /\ \A p \in Page : Keeps(page[p])

LEMMA KeepStep ==
  ASSUME KeepInv, TypeInv', NEW p \in Page, NEW pg, Become(p, pg), Keeps(pg)
  PROVE  KeepInv'
<1>1. page'[p] = pg /\ \A q \in Page : q # p => page'[q] = page[q]
  BY DEF Become, KeepInv, TypeInv, StateOK
<1>2. \A q \in Page : Keeps(page'[q])
  BY <1>1 DEF KeepInv
<1>. QED  BY <1>2 DEF KeepInv

(* What a page that keeps it becomes.                                      *)
LEMMA KeepFacts ==
  ASSUME KeepInv, NEW p \in Page
  PROVE  Keeps(page[p]) /\ page[p] \in PageState /\ TypeInv
BY DEF KeepInv, TypeInv, StateOK

LEMMA KeepClosed ==
  ASSUME NEW s \in Source
  PROVE  Keeps(Closed(s)) /\ Keeps([Closed(s) EXCEPT !.pc = "load"])
BY ClosedForm DEF Keeps, PageState

LEMMA KeepGate ==
  ASSUME NEW pg \in PageState, NEW label \in {"again", "choose"}, pg.source = None
  PROVE  Keeps(Gate(pg, label))
BY GateForm DEF Keeps

LEMMA KeepBound ==
  ASSUME NEW pg \in PageState, NEW d \in Folder \cup {None}
  PROVE  Keeps(Bound(pg, d))
BY BoundForm DEF Keeps

LEMMA KeepRefused ==
  ASSUME NEW pg \in PageState, Keeps(pg)
  PROVE  Keeps(Refused(pg))
<1>1. pg.source \in Folder \cup {None}
  BY DEF PageState
<1>. QED  BY <1>1, KeepGate, KeepBound DEF Refused, Keeps

LEMMA KeepThrown ==
  ASSUME NEW pg \in PageState, Keeps(pg)
  PROVE  Keeps(Thrown(pg))
<1>1. pg.source \in Folder \cup {None}
  BY DEF PageState
<1>2. CASE pg.flow = "open"
  BY <1>2 DEF Thrown, Keeps, PageState
<1>3. CASE pg.flow # "open"
  BY <1>1, <1>3, KeepBound DEF Thrown, Keeps
<1>. QED  BY <1>2, <1>3

LEMMA KeepUnfilled ==
  ASSUME NEW pg \in PageState, pg.pc \in {"receipt", "check"}, Keeps(pg)
  PROVE  Keeps(Unfilled(pg))
<1>1. CASE pg.flow = "load"
  BY <1>1, KeepGate DEF Unfilled, Keeps
<1>2. CASE pg.flow # "load"
  BY <1>2 DEF Unfilled, Keeps, PageState
<1>. QED  BY <1>1, <1>2

LEMMA KeepFilled ==
  ASSUME NEW pg \in PageState, pg.pc = "check", pg.dir \in Folder, Keeps(pg)
  PROVE  Keeps(Filled(pg))
<1>1. CASE pg.flow = "load"
  BY <1>1, KeepBound DEF Filled, Keeps
<1>2. CASE pg.flow # "load"
  BY <1>2 DEF Filled, Keeps, PageState
<1>. QED  BY <1>1, <1>2

LEMMA KeepNextOrSeal ==
  ASSUME KeepInv, NEW p \in Page, page[p].pc \in {"examine", "measure"}
  PROVE  Keeps(NextOrSeal(p))
BY KeepFacts DEF NextOrSeal, Keeps, PageState

LEMMA KeepActs ==
  ASSUME KeepInv, TypeInv', NEW p \in Page, Acts(p)
  PROVE  KeepInv'
<1>1. Keeps(page[p]) /\ page[p] \in PageState /\ TypeInv
  BY KeepFacts
<1>2. SUFFICES \E pg : Become(p, pg) /\ Keeps(pg)
  BY KeepStep
<1>3. ASSUME Visit(p) PROVE \E pg : Become(p, pg) /\ Keeps(pg)
  BY <1>3, BasesForm, KeepClosed DEF Visit
<1>4. ASSUME LoadRemembered(p) PROVE \E pg : Become(p, pg) /\ Keeps(pg)
  <2>1. page[p].pc = "load" /\ page[p].source = None
    BY <1>1, <1>4 DEF LoadRemembered, At, Keeps
  <2>2. CASE remembered = None
    BY <1>1, <1>4, <2>1, <2>2, KeepGate DEF LoadRemembered
  <2>3. CASE remembered # None
    <3> DEFINE pg == [page[p] EXCEPT !.pc = "query", !.offer = remembered, !.dir = remembered]
    <3>1. Keeps(pg)
      BY <1>1, <2>1 DEF Keeps, PageState
    <3>. QED  BY <1>4, <2>3, <3>1 DEF LoadRemembered
  <2>. QED  BY <2>2, <2>3
<1>5. ASSUME QueryPermission(p) PROVE \E pg : Become(p, pg) /\ Keeps(pg)
  <2>1. page[p].pc = "query" /\ page[p].source = None
    BY <1>1, <1>5 DEF QueryPermission, At, Keeps
  <2>2. Keeps(Gate(page[p], "again"))
    BY <1>1, <2>1, KeepGate
  <2>3. Keeps([page[p] EXCEPT !.pc = "receipt"])
    BY <1>1, <2>1 DEF Keeps, PageState
  <2>. QED  BY <1>5, <2>2, <2>3 DEF QueryPermission
<1>6. ASSUME ClickAction(p) PROVE \E pg : Become(p, pg) /\ Keeps(pg)
  <2>1. page[p].pc = "gate" /\ page[p].source = None
    BY <1>1, <1>6 DEF ClickAction, At, Keeps
  <2> DEFINE pg == [page[p] EXCEPT !.flow = "open", !.dir = page[p].offer,
                                   !.pc = IF page[p].offer = None THEN "pick" ELSE "request"]
  <2>2. Keeps(pg)
    BY <1>1, <2>1 DEF Keeps, PageState
  <2>. QED  BY <1>6, <2>2 DEF ClickAction
<1>7. ASSUME Forget(p) \/ HandleUnread(p) \/ HandleKept(p)
      PROVE  \E pg : Become(p, pg) /\ Keeps(pg)
  BY <1>1, <1>7, KeepGate DEF Forget, HandleUnread, HandleKept, At, Keeps
<1>8. ASSUME Pick(p) PROVE \E pg : Become(p, pg) /\ Keeps(pg)
  <2>1. page[p].pc = "pick"
    BY <1>8 DEF Pick, At
  <2>2. PICK d \in Folder : Become(p, [page[p] EXCEPT !.pc = "request", !.dir = d])
    BY <1>8 DEF Pick
  <2>3. Keeps([page[p] EXCEPT !.pc = "request", !.dir = d])
    BY <1>1, <2>1 DEF Keeps, PageState
  <2>. QED  BY <2>2, <2>3
<1>9. ASSUME RequestPermission(p) PROVE \E pg : Become(p, pg) /\ Keeps(pg)
  <2>1. page[p].pc = "request"
    BY <1>9 DEF RequestPermission, At
  <2>2. Keeps([page[p] EXCEPT !.pc = "receipt"])
    BY <1>1, <2>1 DEF Keeps, PageState
  <2>. QED  BY <1>9, <2>2 DEF RequestPermission
<1>10. ASSUME ReadReceipt(p) PROVE \E pg : Become(p, pg) /\ Keeps(pg)
  <2>1. page[p].pc = "receipt"
    BY <1>10 DEF ReadReceipt, At
  <2> DEFINE rec == receipt[Dir(p)]
             pg  == [page[p] EXCEPT !.pc = "check", !.rec = rec, !.todo = DOMAIN rec.sizes]
  <2>2. Keeps(Unfilled(page[p]))
    BY <1>1, <2>1, KeepUnfilled
  <2>3. Keeps(pg)
    BY <1>1, <2>1 DEF Keeps, PageState
  <2>. QED  BY <1>10, <2>2, <2>3 DEF ReadReceipt
<1>11. ASSUME CheckFile(p) PROVE \E pg : Become(p, pg) /\ Keeps(pg)
  <2>1. page[p].pc = "check" /\ page[p].dir \in Folder
    BY <1>1, <1>11, PageFacts DEF CheckFile, At, OnFolder
  <2>2. PICK f \in page[p].todo :
          LET pg == [page[p] EXCEPT !.todo = @ \ {f}]
          IN  Become(p, IF ~ LengthIs(Dir(p), f, pg.rec.sizes[f]) THEN Unfilled(pg)
                        ELSE IF pg.todo = {} THEN Filled(pg)
                        ELSE pg)
    BY <1>11 DEF CheckFile
  <2> DEFINE pg == [page[p] EXCEPT !.todo = @ \ {f}]
  <2>3. /\ pg \in PageState /\ pg.pc = "check" /\ pg.dir \in Folder
        /\ Keeps(pg)
    BY <1>1, <2>1 DEF Keeps, PageState
  <2>4. Keeps(Unfilled(pg)) /\ Keeps(Filled(pg))
    BY <2>1, <2>3, KeepUnfilled, KeepFilled
  <2>. QED  BY <2>2, <2>3, <2>4
<1>12. ASSUME Verify(p) PROVE \E pg : Become(p, pg) /\ Keeps(pg)
  <2>1. page[p].pc = "verify"
    BY <1>12 DEF Verify, At
  <2>2. Keeps(Refused(page[p]))
    BY <1>1, <2>1, KeepRefused
  <2>3. Keeps([page[p] EXCEPT !.next = @ + 1]) /\ Keeps([page[p] EXCEPT !.pc = "remember"])
    BY <1>1, <2>1 DEF Keeps, PageState
  <2>. QED  BY <1>12, <2>2, <2>3 DEF Verify
<1>13. ASSUME Remember(p) \/ HandleUnwritten(p)
       PROVE  \E pg : Become(p, pg) /\ Keeps(pg)
  <2>1. page[p].dir \in Folder /\ Become(p, Usable(page[p]))
    BY <1>1, <1>13, PageFacts DEF Remember, HandleUnwritten, At, OnFolder
  <2>2. Keeps(Usable(page[p]))
    BY <1>1, <2>1, UsableForm DEF Keeps
  <2>. QED  BY <2>1, <2>2
<1>14. ASSUME FetchSizes(p) PROVE \E pg : Become(p, pg) /\ Keeps(pg)
  <2>1. page[p].pc = "sizes"
    BY <1>14 DEF FetchSizes, At
  <2>2. Keeps([page[p] EXCEPT !.pc = "examine", !.next = 1])
    BY <1>1, <2>1 DEF Keeps, PageState
  <2>. QED  BY <1>14, <2>2 DEF FetchSizes
<1>15. ASSUME Examine(p) PROVE \E pg : Become(p, pg) /\ Keeps(pg)
  <2>1. page[p].pc = "examine"
    BY <1>15 DEF Examine, At
  <2>2. Keeps(NextOrSeal(p)) /\ Keeps(Thrown(page[p]))
    BY <1>1, <2>1, KeepNextOrSeal, KeepThrown
  <2>3. Keeps([page[p] EXCEPT !.pc = "write"])
    BY <1>1, <2>1 DEF Keeps, PageState
  <2>. QED  BY <1>15, <2>2, <2>3 DEF Examine
<1>16. ASSUME Download(p) PROVE \E pg : Become(p, pg) /\ Keeps(pg)
  <2>1. page[p].pc = "write"
    BY <1>16 DEF Download, At
  <2>2. Keeps([page[p] EXCEPT !.pc = "measure"])
    BY <1>1, <2>1 DEF Keeps, PageState
  <2>. QED  BY <1>16, <2>2 DEF Download
<1>17. ASSUME Measure(p) PROVE \E pg : Become(p, pg) /\ Keeps(pg)
  <2>1. page[p].pc = "measure"
    BY <1>17 DEF Measure, At
  <2>2. Keeps(NextOrSeal(p)) /\ Keeps(Thrown(page[p]))
    BY <1>1, <2>1, KeepNextOrSeal, KeepThrown
  <2>. QED  BY <1>17, <2>2 DEF Measure
<1>18. ASSUME Seal(p) PROVE \E pg : Become(p, pg) /\ Keeps(pg)
  <2>1. page[p].pc = "seal"
    BY <1>18 DEF Seal, At
  <2>2. Keeps([page[p] EXCEPT !.pc = "verify"])
    BY <1>1, <2>1 DEF Keeps, PageState
  <2>. QED  BY <1>18, <2>2 DEF Seal
<1>19. ASSUME ClickChange(p) PROVE \E pg : Become(p, pg) /\ Keeps(pg)
  <2>1. page[p].pc = "bound"
    BY <1>19 DEF ClickChange, At
  <2>2. Keeps([page[p] EXCEPT !.flow = "change", !.pc = "pick"])
    BY <1>1, <2>1 DEF Keeps, PageState
  <2>. QED  BY <1>19, <2>2 DEF ClickChange
<1>20. ASSUME Reload(p) \/ Leave(p) \/ Crash(p) PROVE \E pg : Become(p, pg) /\ Keeps(pg)
  <2>1. page[p].base \in Source
    BY <1>1, PageFacts
  <2>2. Become(p, Closed(page[p].base)) \/ Become(p, [Closed(page[p].base) EXCEPT !.pc = "load"])
    BY <1>20 DEF Reload, Leave, Crash
  <2>. QED  BY <2>1, <2>2, KeepClosed
<1>21. ASSUME Decline(p) \/ DownloadFails(p) PROVE \E pg : Become(p, pg) /\ Keeps(pg)
  BY <1>1, <1>21, KeepRefused, KeepThrown DEF Decline, DownloadFails
<1>22. ASSUME ShortWrite(p) PROVE \E pg : Become(p, pg) /\ Keeps(pg)
  <2>1. page[p].pc = "write"
    BY <1>22 DEF ShortWrite, At
  <2>2. Keeps([page[p] EXCEPT !.pc = "measure"])
    BY <1>1, <2>1 DEF Keeps, PageState
  <2>. QED  BY <1>22, <2>2 DEF ShortWrite
<1>. QED  BY <1>3, <1>4, <1>5, <1>6, <1>7, <1>8, <1>9, <1>10, <1>11, <1>12, <1>13, <1>14,
             <1>15, <1>16, <1>17, <1>18, <1>19, <1>20, <1>21, <1>22 DEF Acts, Proceed

LEMMA KeepNext == KeepInv /\ [Next]_vars => KeepInv'
<1>1. SUFFICES ASSUME KeepInv, [Next]_vars PROVE KeepInv'
  OBVIOUS
<1>2. TypeInv /\ TypeInv'
  BY <1>1, TypesNext DEF KeepInv
<1>3. CASE UNCHANGED page
  BY <1>1, <1>2, <1>3 DEF KeepInv
<1>4. ASSUME NEW p \in Page, Acts(p) PROVE KeepInv'
  BY <1>1, <1>2, <1>4, KeepActs
<1>. QED  BY <1>1, <1>3, <1>4, NextCases

LEMMA KeepInit == Init => KeepInv
<1>1. SUFFICES ASSUME Init PROVE KeepInv
  OBVIOUS
<1>2. \A p \in Page : \E s \in Source : page[p] = Closed(s)
  BY <1>1 DEF Init
<1>3. \A s \in Source : Keeps(Closed(s))
  BY KeepClosed
<1>. QED  BY <1>1, <1>2, <1>3, InitTypes DEF KeepInv

-----------------------------------------------------------------------------
(* What a page has seen of its folder *)

(* On disk dk folder d holds the files S of repository s whole.            *)
Whole(dk, d, s, S) == \A f \in S : dk[d][f] = Published(s, f)

(* A file is empty, cut, or whole.                                         *)
DiskInv ==
  \A d \in Folder, f \in File :
    disk[d][f] # None => \/ disk[d][f].size = 0 \/ disk[d][f].size \in Partial
                        \/ disk[d][f] = Published(disk[d][f].from, f)

(* A receipt gives the lengths of what its repository publishes.           *)
Honest(rec) == \A f \in DOMAIN rec.sizes : rec.sizes[f] = Size[rec.source][f]

ReceiptInv == \A d \in Folder : receipt[d] # None => Honest(receipt[d])

(* The files of its plan that page p has been through.                     *)
Before(p, n) == {Plan[p][i] : i \in 1 .. n - 1}

(* What a page has seen of its folder so far is whole on disk dk.          *)
Seen(p, pg, dk) ==
  /\ pg.pc = "check" =>
       /\ Honest(pg.rec) /\ FilesOf(p) \subseteq DOMAIN pg.rec.sizes
       /\ Whole(dk, pg.dir, pg.rec.source, FilesOf(p) \ pg.todo)
  /\ pg.pc \in {"examine", "write", "measure"} => Whole(dk, pg.dir, pg.base, Before(p, pg.next))
  /\ pg.pc = "write" => Plan[p][pg.next] \notin Before(p, pg.next)
  /\ pg.pc = "seal" => Whole(dk, pg.dir, pg.base, FilesOf(p))
  /\ pg.pc \in {"verify", "remember"} => \E s \in Source : Whole(dk, pg.dir, s, FilesOf(p))

(* Files and receipts, whoever is at work.                                 *)
FilesInv == TypeInv /\ DiskInv /\ ReceiptInv

Quiet == Phase \ {"check", "examine", "write", "measure", "seal", "verify", "remember"}

(* What page p knows, and what its step leads to.                          *)
Sees(p) == FilesInv /\ Seen(p, page[p], disk)

Goes(p) == Seen(p, page[p], disk)' /\ (StartsToRun(p) => RunsWhole(p)')

-----------------------------------------------------------------------------
(* Files *)

(* The length tells a whole file of a repository.                          *)
LEMMA LengthTells ==
  ASSUME TypeInv, DiskInv, NEW d \in Folder, NEW f \in File, NEW s \in Source,
         LengthIs(d, f, Size[s][f])
  PROVE  disk[d][f] = Published(s, f)
<1>1. disk[d][f] \in Copy /\ disk[d][f].size = Size[s][f]
  BY DEF TypeInv, StateOK, LengthIs
<1>2. Size[s][f] # 0 /\ Size[s][f] \notin Partial
  BY GateAssumption
<1>3. disk[d][f] = Published(disk[d][f].from, f) /\ disk[d][f].from \in Source
  BY <1>1, <1>2 DEF DiskInv, LengthIs, Copy
<1>4. Size[disk[d][f].from][f] = Size[s][f]
  BY <1>1, <1>3 DEF Published
<1>5. disk[d][f].from = s
  BY <1>3, <1>4, GateAssumption
<1>. QED  BY <1>3, <1>5

LEMMA BeforeForm ==
  ASSUME NEW p \in Page, NEW n \in 1 .. Len(Plan[p])
  PROVE  /\ Before(p, n) \subseteq FilesOf(p) /\ Before(p, n) \subseteq File
         /\ Before(p, 1) = {}
         /\ Before(p, n + 1) = Before(p, n) \cup {Plan[p][n]}
         /\ n = Len(Plan[p]) => Before(p, n + 1) = FilesOf(p)
<1>1. Plan[p] \in Seq(File) /\ Len(Plan[p]) \in Nat /\ DOMAIN Plan[p] = 1 .. Len(Plan[p])
  BY GateAssumption
<1>2. 1 .. n - 1 \subseteq DOMAIN Plan[p] /\ 1 .. (n + 1) - 1 = (1 .. n - 1) \cup {n}
  BY <1>1
<1>3. Before(p, n) \subseteq FilesOf(p) /\ FilesOf(p) \subseteq File
  BY <1>1, <1>2 DEF Before, FilesOf
<1>4. Before(p, n + 1) = Before(p, n) \cup {Plan[p][n]}
  BY <1>2 DEF Before
<1>5. n = Len(Plan[p]) => Before(p, n + 1) = FilesOf(p)
  BY <1>1 DEF Before, FilesOf
<1>. QED  BY <1>3, <1>4, <1>5 DEF Before

(* What a page has seen is still so if its files in its folder are the     *)
(* same.                                                                   *)
LEMMA SeenLasts ==
  ASSUME NEW p \in Page, NEW pg \in PageState, Shape(p, pg), Seen(p, pg, disk),
         pg.pc \in OnFolder => \A f \in FilesOf(p) : disk'[pg.dir][f] = disk[pg.dir][f]
  PROVE  Seen(p, pg, disk')
<1>1. ASSUME NEW s, NEW S \in SUBSET FilesOf(p), Whole(disk, pg.dir, s, S), pg.pc \in OnFolder
      PROVE  Whole(disk', pg.dir, s, S)
  BY <1>1 DEF Whole
<1>2. CASE pg.pc = "check"
  BY <1>1, <1>2 DEF Seen, OnFolder
<1>3. CASE pg.pc \in {"examine", "write", "measure"}
  <2>1. Before(p, pg.next) \subseteq FilesOf(p)
    BY <1>3, BeforeForm DEF Shape, OnFile
  <2>. QED  BY <1>1, <1>3, <2>1 DEF Seen, OnFolder
<1>4. CASE pg.pc = "seal"
  BY <1>1, <1>4 DEF Seen, OnFolder
<1>5. CASE pg.pc \in {"verify", "remember"}
  BY <1>1, <1>5 DEF Seen, OnFolder
<1>. QED  BY <1>2, <1>3, <1>4, <1>5 DEF Seen

(* A page becomes pg, having seen what it should.                          *)
LEMMA WholePage ==
  ASSUME NEW p \in Page, Sees(p), NEW pg, Become(p, pg), Seen(p, pg, disk'),
         \/ pg.source \in {None, page[p].source}
         \/ \E s \in Source : Whole(disk', pg.source, s, FilesOf(p))
  PROVE  Goes(p)
<1>1. page'[p] = pg
  BY DEF Become, Sees, FilesInv, TypeInv, StateOK
<1>2. Seen(p, page[p], disk)'
  BY <1>1 DEF Seen
<1>3. ASSUME StartsToRun(p) PROVE RunsWhole(p)'
  <2>1. PICK s \in Source : Whole(disk', pg.source, s, FilesOf(p))
    BY <1>1, <1>3 DEF StartsToRun
  <2>. QED  BY <1>1, <2>1 DEF RunsWhole, Whole, Published
<1>. QED  BY <1>2, <1>3 DEF Goes

(* It leaves the files alone.                                              *)
LEMMA WholeMove ==
  ASSUME NEW p \in Page, Sees(p), UNCHANGED disk, NEW pg, Become(p, pg), Seen(p, pg, disk),
         \/ pg.source \in {None, page[p].source}
         \/ \E s \in Source : Whole(disk, pg.source, s, FilesOf(p))
  PROVE  Goes(p)
<1>1. disk' = disk
  OBVIOUS
<1>. QED  BY <1>1, WholePage

(* It has no folder to look at.                                            *)
LEMMA WholeQuiet ==
  ASSUME NEW p \in Page, Sees(p), NEW pg, Become(p, pg), pg.pc \in Quiet,
         pg.source \in {None, page[p].source}
  PROVE  Goes(p)
<1>1. Seen(p, pg, disk')
  BY DEF Seen, Quiet
<1>. QED  BY <1>1, WholePage

-----------------------------------------------------------------------------
(* What each action has seen *)

LEMMA WholeFacts ==
  ASSUME NEW p \in Page, Sees(p)
  PROVE  /\ TypeInv /\ DiskInv /\ ReceiptInv /\ Seen(p, page[p], disk)
         /\ page[p] \in PageState /\ page[p].base \in Source
         /\ page[p].source \in Folder \cup {None}
BY PageFacts DEF Sees, FilesInv

(* Where bindFolder's outcomes lead, none of them looks at a folder.       *)
LEMMA OutcomesQuiet ==
  ASSUME NEW pg \in PageState
  PROVE  /\ Refused(pg).pc \in Quiet /\ Refused(pg).source = pg.source
         /\ Thrown(pg).pc \in Quiet /\ Thrown(pg).source = pg.source
         /\ Unfilled(pg).pc \in Quiet /\ Unfilled(pg).source = pg.source
<1>1. pg.source \in Folder \cup {None}
  BY DEF PageState
<1>2. Refused(pg).pc \in Quiet /\ Refused(pg).source = pg.source
  BY <1>1, GateForm, BoundForm DEF Refused, Quiet, Phase
<1>3. Thrown(pg).pc \in Quiet /\ Thrown(pg).source = pg.source
  <2>1. CASE pg.flow = "open"
    BY <2>1 DEF Thrown, Quiet, Phase, PageState
  <2>2. CASE pg.flow # "open"
    BY <1>1, <2>2, BoundForm DEF Thrown, Quiet, Phase
  <2>. QED  BY <2>1, <2>2
<1>4. Unfilled(pg).pc \in Quiet /\ Unfilled(pg).source = pg.source
  <2>1. CASE pg.flow = "load"
    BY <2>1, GateForm DEF Unfilled, Quiet, Phase
  <2>2. CASE pg.flow # "load"
    BY <2>2 DEF Unfilled, Quiet, Phase, PageState
  <2>. QED  BY <2>1, <2>2
<1>. QED  BY <1>2, <1>3, <1>4

(* Steps after which the page has no folder to look at.                    *)
LEMMA WholeGate ==
  ASSUME NEW p \in Page, Sees(p),
         \/ Visit(p) \/ LoadRemembered(p) \/ QueryPermission(p) \/ ClickAction(p)
         \/ ClickChange(p) \/ Forget(p) \/ Pick(p) \/ RequestPermission(p)
         \/ Reload(p) \/ Leave(p) \/ Crash(p) \/ Decline(p) \/ DownloadFails(p)
         \/ HandleUnread(p) \/ HandleKept(p)
  PROVE  Goes(p)
<1>1. page[p] \in PageState /\ page[p].base \in Source
  BY WholeFacts
<1>2. UNCHANGED disk
  BY DEF Visit, LoadRemembered, QueryPermission, ClickAction, ClickChange, Forget, Pick,
         RequestPermission, Reload, Leave, Crash, Decline, DownloadFails, HandleUnread,
         HandleKept, storage
<1>3. SUFFICES \E pg : Become(p, pg) /\ pg.pc \in Quiet /\ pg.source \in {None, page[p].source}
  BY WholeQuiet
<1> DEFINE Goal == \E pg : /\ Become(p, pg) /\ pg.pc \in Quiet
                           /\ pg.source \in {None, page[p].source}
<1>4. ASSUME Visit(p) PROVE Goal
  <2>1. \A s \in Source : /\ [Closed(s) EXCEPT !.pc = "load"].pc \in Quiet
                          /\ [Closed(s) EXCEPT !.pc = "load"].source = None
    BY ClosedForm DEF Quiet, Phase, PageState
  <2>. QED  BY <1>4, <2>1, BasesForm DEF Visit
<1>5. ASSUME NEW label \in {"again", "choose"}
      PROVE  Gate(page[p], label).pc \in Quiet /\ Gate(page[p], label).source = page[p].source
  BY <1>1, GateForm DEF Quiet, Phase
<1>6. ASSUME LoadRemembered(p) PROVE Goal
  <2> DEFINE pg == [page[p] EXCEPT !.pc = "query", !.offer = remembered, !.dir = remembered]
  <2>1. pg.pc \in Quiet /\ pg.source = page[p].source
    BY <1>1 DEF Quiet, Phase, PageState
  <2>2. Become(p, Gate(page[p], "choose")) \/ Become(p, pg)
    BY <1>6 DEF LoadRemembered
  <2>. QED  BY <1>5, <2>1, <2>2
<1>7. ASSUME QueryPermission(p) \/ RequestPermission(p) PROVE Goal
  <2> DEFINE pg == [page[p] EXCEPT !.pc = "receipt"]
  <2>1. pg.pc \in Quiet /\ pg.source = page[p].source
    BY <1>1 DEF Quiet, Phase, PageState
  <2>2. Become(p, Gate(page[p], "again")) \/ Become(p, pg)
    BY <1>7 DEF QueryPermission, RequestPermission
  <2>. QED  BY <1>5, <2>1, <2>2
<1>8. ASSUME ClickAction(p) PROVE Goal
  <2> DEFINE pg == [page[p] EXCEPT !.flow = "open", !.dir = page[p].offer,
                                   !.pc = IF page[p].offer = None THEN "pick" ELSE "request"]
  <2>1. pg.pc \in Quiet /\ pg.source = page[p].source
    BY <1>1 DEF Quiet, Phase, PageState
  <2>. QED  BY <1>8, <2>1 DEF ClickAction
<1>9. ASSUME ClickChange(p) PROVE Goal
  <2> DEFINE pg == [page[p] EXCEPT !.flow = "change", !.pc = "pick"]
  <2>1. pg.pc \in Quiet /\ pg.source = page[p].source
    BY <1>1 DEF Quiet, Phase, PageState
  <2>. QED  BY <1>9, <2>1 DEF ClickChange
<1>10. ASSUME Forget(p) \/ HandleUnread(p) \/ HandleKept(p) PROVE Goal
  BY <1>5, <1>10 DEF Forget, HandleUnread, HandleKept
<1>11. ASSUME Pick(p) PROVE Goal
  <2>1. PICK d \in Folder : Become(p, [page[p] EXCEPT !.pc = "request", !.dir = d])
    BY <1>11 DEF Pick
  <2> DEFINE pg == [page[p] EXCEPT !.pc = "request", !.dir = d]
  <2>2. pg.pc \in Quiet /\ pg.source = page[p].source
    BY <1>1 DEF Quiet, Phase, PageState
  <2>. QED  BY <2>1, <2>2
<1>12. ASSUME Reload(p) \/ Leave(p) \/ Crash(p) PROVE Goal
  <2> DEFINE pg == [Closed(page[p].base) EXCEPT !.pc = "load"]
  <2>1. /\ pg.pc \in Quiet /\ pg.source = None
        /\ Closed(page[p].base).pc \in Quiet /\ Closed(page[p].base).source = None
    BY <1>1, ClosedForm DEF Quiet, Phase, PageState
  <2>2. Become(p, pg) \/ Become(p, Closed(page[p].base))
    BY <1>12 DEF Reload, Leave, Crash
  <2>. QED  BY <2>1, <2>2
<1>13. ASSUME Decline(p) \/ DownloadFails(p) PROVE Goal
  <2>1. Become(p, Refused(page[p])) \/ Become(p, Thrown(page[p]))
    BY <1>13 DEF Decline, DownloadFails
  <2>. QED  BY <1>1, <2>1, OutcomesQuiet
<1>. QED  BY <1>4, <1>6, <1>7, <1>8, <1>9, <1>10, <1>11, <1>12, <1>13

LEMMA WholeReadReceipt ==
  ASSUME NEW p \in Page, Sees(p), ReadReceipt(p)
  PROVE  Goes(p)
<1>1. /\ page[p] \in PageState /\ TypeInv /\ ReceiptInv /\ Dir(p) \in Folder
      /\ UNCHANGED disk
  BY WholeFacts, PageFacts DEF ReadReceipt, At, OnFolder, Dir, storage
<1> DEFINE rec == receipt[Dir(p)]
           pg  == [page[p] EXCEPT !.pc = "check", !.rec = rec, !.todo = DOMAIN rec.sizes]
<1>2. CASE Covers(rec, p)
  <2>1. Honest(rec) /\ FilesOf(p) \subseteq DOMAIN rec.sizes
    BY <1>1, <1>2 DEF Covers, ReceiptInv
  <2>2. /\ pg.pc = "check" /\ pg.rec = rec /\ pg.todo = DOMAIN rec.sizes
        /\ pg.source = page[p].source
    BY <1>1 DEF PageState
  <2>3. Seen(p, pg, disk)
    BY <2>1, <2>2 DEF Seen, Whole
  <2>4. Become(p, pg)
    BY <1>2 DEF ReadReceipt
  <2>. QED  BY <1>1, <2>2, <2>3, <2>4, WholeMove
<1>3. CASE ~ Covers(rec, p)
  <2>1. Become(p, Unfilled(page[p]))
    BY <1>3 DEF ReadReceipt
  <2>. QED  BY <1>1, <2>1, OutcomesQuiet, WholeQuiet
<1>. QED  BY <1>2, <1>3

LEMMA WholeCheckFile ==
  ASSUME NEW p \in Page, Sees(p), CheckFile(p)
  PROVE  Goes(p)
<1>1. /\ page[p] \in PageState /\ TypeInv /\ DiskInv /\ page[p].dir \in Folder /\ page[p].pc = "check"
      /\ page[p].rec \in Receipt /\ page[p].todo \subseteq DOMAIN page[p].rec.sizes
      /\ Honest(page[p].rec) /\ FilesOf(p) \subseteq DOMAIN page[p].rec.sizes
      /\ Whole(disk, page[p].dir, page[p].rec.source, FilesOf(p) \ page[p].todo)
      /\ UNCHANGED disk
  BY WholeFacts, PageFacts DEF CheckFile, At, OnFolder, Seen, storage
<1>2. PICK f \in page[p].todo :
        LET pg == [page[p] EXCEPT !.todo = @ \ {f}]
        IN  Become(p, IF ~ LengthIs(Dir(p), f, pg.rec.sizes[f]) THEN Unfilled(pg)
                      ELSE IF pg.todo = {} THEN Filled(pg)
                      ELSE pg)
  BY DEF CheckFile
<1> DEFINE pg  == [page[p] EXCEPT !.todo = @ \ {f}]
           rec == page[p].rec
<1>3. /\ pg \in PageState /\ pg.pc = "check" /\ pg.dir = page[p].dir /\ pg.rec = rec
      /\ pg.todo = page[p].todo \ {f} /\ pg.source = page[p].source /\ pg.flow = page[p].flow
  BY <1>1 DEF PageState
<1>4. rec.source \in Source /\ DOMAIN rec.sizes \subseteq File
  BY <1>1 DEF Receipt
<1>5. CASE ~ LengthIs(Dir(p), f, pg.rec.sizes[f])
  BY <1>1, <1>2, <1>3, <1>5, OutcomesQuiet, WholeQuiet
<1>6. CASE LengthIs(Dir(p), f, pg.rec.sizes[f])
  <2>1. f \in FilesOf(p) => disk[page[p].dir][f] = Published(rec.source, f)
    <3>1. rec.sizes[f] = Size[rec.source][f] /\ f \in File
      BY <1>1, <1>4 DEF Honest
    <3>. QED  BY <1>1, <1>3, <1>4, <1>6, <3>1, LengthTells DEF Dir
  <2>2. Whole(disk, pg.dir, rec.source, FilesOf(p) \ pg.todo)
    BY <1>1, <1>3, <2>1 DEF Whole
  <2>3. CASE pg.todo = {}
    <3>1. Whole(disk, page[p].dir, rec.source, FilesOf(p))
      BY <1>1, <1>3, <2>2, <2>3 DEF Whole
    <3>2. Become(p, Filled(pg))
      BY <1>2, <1>6, <2>3
    <3>3. CASE pg.flow = "load"
      <4>1. Filled(pg).pc \in Quiet /\ Filled(pg).source = page[p].dir
        BY <1>1, <1>3, <3>3, BoundForm DEF Filled, Quiet, Phase
      <4>2. Seen(p, Filled(pg), disk)
        BY <4>1 DEF Seen, Quiet
      <4>. QED  BY <1>1, <1>4, <3>1, <3>2, <4>1, <4>2, WholeMove
    <3>4. CASE pg.flow # "load"
      <4>1. /\ Filled(pg).pc = "verify" /\ Filled(pg).dir = page[p].dir
            /\ Filled(pg).source = page[p].source
        BY <1>3, <3>4 DEF Filled, PageState
      <4>2. Seen(p, Filled(pg), disk)
        BY <1>4, <3>1, <4>1 DEF Seen
      <4>. QED  BY <1>1, <3>2, <4>1, <4>2, WholeMove
    <3>. QED  BY <3>3, <3>4
  <2>4. CASE pg.todo # {}
    <3>1. Seen(p, pg, disk)
      BY <1>1, <1>3, <2>2 DEF Seen
    <3>2. Become(p, pg)
      BY <1>2, <1>6, <2>4
    <3>. QED  BY <1>1, <1>3, <3>1, <3>2, WholeMove
  <2>. QED  BY <2>3, <2>4
<1>. QED  BY <1>5, <1>6

LEMMA WholeVerify ==
  ASSUME NEW p \in Page, Sees(p), Verify(p)
  PROVE  Goes(p)
<1>1. /\ page[p] \in PageState /\ page[p].pc = "verify" /\ UNCHANGED disk
      /\ \E s \in Source : Whole(disk, page[p].dir, s, FilesOf(p))
  BY WholeFacts DEF Verify, At, Seen, storage
<1>2. ASSUME NEW pg, \/ pg = [page[p] EXCEPT !.next = @ + 1]
                    \/ pg = [page[p] EXCEPT !.pc = "remember"]
      PROVE  Seen(p, pg, disk) /\ pg.source = page[p].source
  <2>1. /\ pg.pc \in {"verify", "remember"} /\ pg.dir = page[p].dir
        /\ pg.source = page[p].source
    BY <1>1, <1>2 DEF PageState
  <2>. QED  BY <1>1, <2>1 DEF Seen
<1>3. \/ Become(p, Refused(page[p]))
      \/ Become(p, [page[p] EXCEPT !.next = @ + 1])
      \/ Become(p, [page[p] EXCEPT !.pc = "remember"])
  BY DEF Verify
<1>4. CASE Become(p, Refused(page[p]))
  BY <1>1, <1>4, OutcomesQuiet, WholeQuiet
<1>. QED  BY <1>1, <1>2, <1>3, <1>4, WholeMove

LEMMA WholeRemember ==
  ASSUME NEW p \in Page, Sees(p), Remember(p) \/ HandleUnwritten(p)
  PROVE  Goes(p)
<1>1. /\ page[p] \in PageState /\ page[p].dir \in Folder /\ page[p].pc = "remember"
      /\ UNCHANGED disk /\ Become(p, Usable(page[p]))
      /\ \E s \in Source : Whole(disk, page[p].dir, s, FilesOf(p))
  BY WholeFacts, PageFacts DEF Remember, HandleUnwritten, At, OnFolder, Seen, storage
<1>2. /\ Usable(page[p]).pc \in Quiet
      /\ Usable(page[p]).source \in {None, page[p].dir}
  BY <1>1, UsableForm DEF Quiet, Phase
<1>3. Seen(p, Usable(page[p]), disk)
  BY <1>2 DEF Seen, Quiet
<1>. QED  BY <1>1, <1>2, <1>3, WholeMove

LEMMA WholeFetchSizes ==
  ASSUME NEW p \in Page, Sees(p), FetchSizes(p)
  PROVE  Goes(p)
<1> DEFINE pg == [page[p] EXCEPT !.pc = "examine", !.next = 1]
<1>1. /\ page[p] \in PageState /\ UNCHANGED disk /\ Become(p, pg)
  BY WholeFacts DEF FetchSizes, storage
<1>2. pg.pc = "examine" /\ pg.next = 1 /\ pg.source = page[p].source
  BY <1>1 DEF PageState
<1>3. Seen(p, pg, disk)
  BY <1>2, PlanForm, BeforeForm DEF Seen, Whole
<1>. QED  BY <1>1, <1>2, <1>3, WholeMove

(* On to the next file, this one being whole.                              *)
LEMMA SeenNextOrSeal ==
  ASSUME NEW p \in Page, Sees(p), page[p].pc \in {"examine", "measure"},
         LengthIs(Dir(p), NextFile(p), Want(p))
  PROVE  Seen(p, NextOrSeal(p), disk) /\ NextOrSeal(p).source = page[p].source
<1>1. /\ page[p] \in PageState /\ Dir(p) \in Folder /\ page[p].base \in Source
      /\ page[p].next \in 1 .. Len(Plan[p]) /\ Len(Plan[p]) \in Nat /\ NextFile(p) \in File
      /\ Want(p) = Size[page[p].base][NextFile(p)]
      /\ TypeInv /\ DiskInv /\ Seen(p, page[p], disk)
  BY WholeFacts, OnFileFacts, PlanForm DEF OnFile
<1>2. disk[Dir(p)][NextFile(p)] = Published(page[p].base, NextFile(p))
  BY <1>1, LengthTells
<1>3. Whole(disk, Dir(p), page[p].base, Before(p, page[p].next))
  BY <1>1 DEF Seen, Dir
<1>4. Whole(disk, Dir(p), page[p].base, Before(p, page[p].next + 1))
  <2>1. Before(p, page[p].next + 1) = Before(p, page[p].next) \cup {NextFile(p)}
    BY <1>1, BeforeForm DEF NextFile
  <2>. QED  BY <1>2, <1>3, <2>1 DEF Whole
<1>5. CASE page[p].next < Len(Plan[p])
  <2>1. /\ NextOrSeal(p).pc = "examine" /\ NextOrSeal(p).next = page[p].next + 1
        /\ NextOrSeal(p).dir = Dir(p) /\ NextOrSeal(p).base = page[p].base
        /\ NextOrSeal(p).source = page[p].source
    BY <1>1, <1>5 DEF NextOrSeal, PageState, Dir
  <2>. QED  BY <1>4, <2>1 DEF Seen
<1>6. CASE ~ (page[p].next < Len(Plan[p]))
  <2>1. /\ NextOrSeal(p).pc = "seal" /\ NextOrSeal(p).dir = Dir(p)
        /\ NextOrSeal(p).base = page[p].base /\ NextOrSeal(p).source = page[p].source
    BY <1>1, <1>6 DEF NextOrSeal, PageState, Dir
  <2>2. page[p].next = Len(Plan[p])
    BY <1>1, <1>6
  <2>3. Whole(disk, Dir(p), page[p].base, FilesOf(p))
    BY <1>1, <1>4, <2>2, BeforeForm
  <2>. QED  BY <2>1, <2>3 DEF Seen
<1>. QED  BY <1>5, <1>6

(* A file that has to be downloaded has not been seen.                     *)
LEMMA NotSeen ==
  ASSUME NEW p \in Page, Sees(p), page[p].pc = "examine",
         ~ LengthIs(Dir(p), NextFile(p), Want(p))
  PROVE  NextFile(p) \notin Before(p, page[p].next)
<1>1. /\ page[p].base \in Source /\ NextFile(p) \in File
      /\ Want(p) = Size[page[p].base][NextFile(p)]
      /\ Whole(disk, Dir(p), page[p].base, Before(p, page[p].next))
  BY WholeFacts, OnFileFacts DEF OnFile, Seen, Dir
<1>2. SUFFICES ASSUME NextFile(p) \in Before(p, page[p].next) PROVE FALSE
  OBVIOUS
<1>3. disk[Dir(p)][NextFile(p)] = Published(page[p].base, NextFile(p))
  BY <1>1, <1>2 DEF Whole
<1>4. Published(page[p].base, NextFile(p)) # None
  BY <1>1, SizeForm, NoneAssumption
<1>. QED  BY <1>1, <1>3, <1>4 DEF LengthIs, Published

LEMMA WholeExamine ==
  ASSUME NEW p \in Page, Sees(p), Examine(p)
  PROVE  Goes(p)
<1>1. /\ page[p].pc = "examine" /\ page[p] \in PageState 
      /\ Dir(p) \in Folder /\ NextFile(p) \in File /\ page[p].base \in Source
      /\ page[p].next \in 1 .. Len(Plan[p])
  <2>1. page[p].pc = "examine" 
    BY DEF Examine, At
  <2>. QED  BY <2>1, WholeFacts, OnFileFacts DEF OnFile
<1>2. CASE LengthIs(Dir(p), NextFile(p), Want(p))
  BY <1>1, <1>2, SeenNextOrSeal, WholeMove DEF Examine
<1>3. CASE ~ LengthIs(Dir(p), NextFile(p), Want(p)) /\ Dir(p) \in gone
  BY <1>1, <1>3, OutcomesQuiet, WholeQuiet DEF Examine
<1>4. CASE ~ LengthIs(Dir(p), NextFile(p), Want(p)) /\ Dir(p) \notin gone
  <2> DEFINE pg  == [page[p] EXCEPT !.pc = "write"]
             new == [from |-> page[p].base, size |-> 0]
  <2>1. /\ Become(p, pg)
        /\ IF disk[Dir(p)][NextFile(p)] = None
             THEN disk' = [disk EXCEPT ![Dir(p)][NextFile(p)] = new]
             ELSE disk' = disk
    BY <1>4 DEF Examine
  <2>2. /\ pg.pc = "write" /\ pg.dir = Dir(p) /\ pg.base = page[p].base
        /\ pg.next = page[p].next /\ pg.source = page[p].source
    BY <1>1 DEF PageState, Dir
  <2>3. NextFile(p) \notin Before(p, page[p].next)
    BY <1>1, <1>4, NotSeen
  <2>4. Whole(disk, Dir(p), page[p].base, Before(p, page[p].next))
    BY <1>1, WholeFacts DEF Seen, Dir
  <2>5. CASE disk[Dir(p)][NextFile(p)] = None
    <3>1. new \in Copy /\ new.size = 0
      BY <1>1 DEF Copy
    <3>2. disk' = [disk EXCEPT ![Dir(p)][NextFile(p)] = new]
      BY <2>1, <2>5
    <3>3. \A g \in File : g # NextFile(p) => disk'[Dir(p)][g] = disk[Dir(p)][g]
      BY <1>1, <3>1, <3>2, DiskStep, WholeFacts
    <3>4. Whole(disk', Dir(p), page[p].base, Before(p, page[p].next))
      BY <1>1, <2>3, <2>4, <3>3, BeforeForm DEF Whole
    <3>5. Seen(p, pg, disk')
      BY <2>2, <2>3, <3>4 DEF Seen, NextFile
    <3>. QED  BY <1>1, <2>1, <2>2, <2>5, <3>1, <3>2, <3>5, WholePage DEF OnFile
  <2>6. CASE disk[Dir(p)][NextFile(p)] # None
    <3>1. Seen(p, pg, disk)
      BY <2>2, <2>3, <2>4 DEF Seen, NextFile
    <3>. QED  BY <1>1, <2>1, <2>2, <2>6, <3>1, WholeMove
  <2>. QED  BY <2>5, <2>6
<1>. QED  BY <1>2, <1>3, <1>4

LEMMA WholeDownload ==
  ASSUME NEW p \in Page, Sees(p), Download(p) \/ ShortWrite(p)
  PROVE  Goes(p)
<1> DEFINE pg == [page[p] EXCEPT !.pc = "measure"]
<1>1. /\ page[p].pc = "write" /\ page[p] \in PageState  /\ Become(p, pg)
      /\ Dir(p) \in Folder /\ NextFile(p) \in File /\ page[p].base \in Source
      /\ page[p].next \in 1 .. Len(Plan[p])
      /\ Published(page[p].base, NextFile(p)) \in Copy
  <2>1. page[p].pc = "write"  /\ Become(p, pg)
    BY DEF Download, ShortWrite, At
  <2>. QED  BY <2>1, WholeFacts, OnFileFacts DEF OnFile
<1>2. PICK copy \in Copy :
        /\ disk' = [disk EXCEPT ![Dir(p)][NextFile(p)] = copy]
        /\ copy.size \in Partial \/ copy = Published(page[p].base, NextFile(p))
  <2>1. CASE Download(p)
    BY <1>1, <2>1 DEF Download
  <2>2. CASE ShortWrite(p)
    <3>1. PICK n \in Partial :
            disk' = [disk EXCEPT ![Dir(p)][NextFile(p)] = [from |-> page[p].base, size |-> n]]
      BY <2>2 DEF ShortWrite
    <3>2. [from |-> page[p].base, size |-> n] \in Copy
      BY <1>1, GateAssumption DEF Copy
    <3>. QED  BY <3>1, <3>2
  <2>. QED  BY <2>1, <2>2
<1>3. /\ pg.pc = "measure" /\ pg.dir = Dir(p) /\ pg.base = page[p].base
      /\ pg.next = page[p].next /\ pg.source = page[p].source
  BY <1>1 DEF PageState, Dir
<1>4. /\ Whole(disk, Dir(p), page[p].base, Before(p, page[p].next))
      /\ NextFile(p) \notin Before(p, page[p].next)
  BY <1>1, WholeFacts DEF Seen, Dir, NextFile
<1>5. \A g \in File : g # NextFile(p) => disk'[Dir(p)][g] = disk[Dir(p)][g]
  BY <1>1, <1>2, DiskStep, WholeFacts
<1>6. Whole(disk', Dir(p), page[p].base, Before(p, page[p].next))
  BY <1>1, <1>4, <1>5, BeforeForm DEF Whole
<1>7. Seen(p, pg, disk')
  BY <1>3, <1>6 DEF Seen
<1>. QED  BY <1>1, <1>2, <1>3, <1>7, WholePage DEF OnFile

LEMMA WholeMeasure ==
  ASSUME NEW p \in Page, Sees(p), Measure(p)
  PROVE  Goes(p)
<1>1. page[p].pc = "measure" /\ page[p] \in PageState /\ UNCHANGED disk
  BY WholeFacts DEF Measure, At, storage
<1>2. CASE LengthIs(Dir(p), NextFile(p), Want(p))
  BY <1>1, <1>2, SeenNextOrSeal, WholeMove DEF Measure
<1>3. CASE ~ LengthIs(Dir(p), NextFile(p), Want(p))
  BY <1>1, <1>3, OutcomesQuiet, WholeQuiet DEF Measure
<1>. QED  BY <1>2, <1>3

LEMMA WholeSeal ==
  ASSUME NEW p \in Page, Sees(p), Seal(p)
  PROVE  Goes(p)
<1> DEFINE pg == [page[p] EXCEPT !.pc = "verify"]
<1>1. /\ page[p].pc = "seal" /\ page[p] \in PageState /\ page[p].base \in Source
      /\ UNCHANGED disk /\ Become(p, pg)
      /\ Whole(disk, page[p].dir, page[p].base, FilesOf(p))
  BY WholeFacts DEF Seal, At, Seen
<1>2. /\ pg.pc = "verify" /\ pg.dir = page[p].dir /\ pg.source = page[p].source
  BY <1>1 DEF PageState
<1>3. Seen(p, pg, disk)
  BY <1>1, <1>2 DEF Seen
<1>. QED  BY <1>1, <1>2, <1>3, WholeMove

LEMMA WholeActs ==
  ASSUME NEW p \in Page, Sees(p), Acts(p)
  PROVE  Goes(p)
BY WholeGate, WholeReadReceipt, WholeCheckFile, WholeVerify, WholeRemember, WholeFetchSizes,
   WholeExamine, WholeDownload, WholeMeasure, WholeSeal DEF Acts, Proceed

-----------------------------------------------------------------------------
(* Files and receipts *)

(* One file of a folder is replaced by one that may be there.              *)
LEMMA FilesWrite ==
  ASSUME FilesInv, NEW d \in Folder, NEW f \in File, NEW copy \in Copy \cup {None},
         disk' = [disk EXCEPT ![d][f] = copy],
         copy # None => \/ copy.size = 0 \/ copy.size \in Partial
                        \/ copy = Published(copy.from, f)
  PROVE  DiskInv'
<1>1. /\ disk'[d][f] = copy
      /\ \A e \in Folder, g \in File : (e # d \/ g # f) => disk'[e][g] = disk[e][g]
  BY DiskStep DEF FilesInv
<1>. QED  BY <1>1 DEF FilesInv, DiskInv, Published

(* The page that writes one does so in its folder, and moves on.           *)
LEMMA ActsWrite ==
  ASSUME FilesInv, NEW p \in Page, Acts(p)
  PROVE  \/ UNCHANGED disk
         \/ DiskInv' /\ page'[p] # page[p]
<1>1. ASSUME Examine(p), disk' # disk PROVE DiskInv' /\ page'[p] # page[p]
  <2>1. page[p].pc = "examine" /\ Dir(p) \in Folder /\ NextFile(p) \in File /\ page[p].base \in Source
        /\ page[p] \in PageState
    BY <1>1, OnFileFacts DEF Examine, At, OnFile, FilesInv
  <2> DEFINE new == [from |-> page[p].base, size |-> 0]
  <2>2. /\ disk' = [disk EXCEPT ![Dir(p)][NextFile(p)] = new]
        /\ Become(p, [page[p] EXCEPT !.pc = "write"])
    BY <1>1 DEF Examine
  <2>3. new \in Copy /\ new.size = 0
    BY <2>1 DEF Copy
  <2>4. page'[p].pc = "write"
    BY <2>1, <2>2 DEF Become, FilesInv, TypeInv, StateOK, PageState
  <2>. QED  BY <2>1, <2>2, <2>3, <2>4, FilesWrite
<1>2. ASSUME Download(p) \/ ShortWrite(p) PROVE DiskInv' /\ page'[p] # page[p]
  <2>1. /\ page[p].pc = "write" /\ Dir(p) \in Folder /\ NextFile(p) \in File /\ page[p].base \in Source
        /\ page[p] \in PageState /\ Become(p, [page[p] EXCEPT !.pc = "measure"])
        /\ Published(page[p].base, NextFile(p)) \in Copy
    <3>1. page[p].pc = "write" /\ Become(p, [page[p] EXCEPT !.pc = "measure"])
      BY <1>2 DEF Download, ShortWrite, At
    <3>. QED  BY <3>1, OnFileFacts DEF OnFile, FilesInv
  <2>2. page'[p].pc = "measure"
    BY <2>1 DEF Become, FilesInv, TypeInv, StateOK, PageState
  <2>3. CASE Download(p)
    <3>1. Published(page[p].base, NextFile(p)) = Published(Published(page[p].base, NextFile(p)).from, NextFile(p))
      BY DEF Published
    <3>2. disk' = [disk EXCEPT ![Dir(p)][NextFile(p)] = Published(page[p].base, NextFile(p))]
      BY <2>3 DEF Download
    <3>3. DiskInv'
      BY <2>1, <3>1, <3>2, FilesWrite
    <3>. QED  BY <2>1, <2>2, <3>3
  <2>4. CASE ShortWrite(p)
    <3>1. PICK n \in Partial :
            disk' = [disk EXCEPT ![Dir(p)][NextFile(p)] = [from |-> page[p].base, size |-> n]]
      BY <2>4 DEF ShortWrite
    <3>2. [from |-> page[p].base, size |-> n] \in Copy
      BY <2>1, GateAssumption DEF Copy
    <3>3. DiskInv'
      BY <2>1, <3>1, <3>2, FilesWrite
    <3>. QED  BY <2>1, <2>2, <3>3
  <2>. QED  BY <1>2, <2>3, <2>4
<1>. QED
  BY <1>1, <1>2 DEF Acts, Proceed, Visit, LoadRemembered, QueryPermission, ClickAction, ClickChange,
     Forget, Pick, RequestPermission, ReadReceipt, CheckFile, Verify, Remember, FetchSizes,
     Measure, Seal, Reload, Leave, Decline, DownloadFails, Crash, HandleUnread, HandleUnwritten,
     HandleKept, storage

(* A receipt is written with the lengths of its repository.                *)
LEMMA ActsSeal ==
  ASSUME FilesInv, NEW p \in Page, Acts(p)
  PROVE  ReceiptInv'
<1>1. CASE UNCHANGED receipt
  BY <1>1 DEF FilesInv, ReceiptInv
<1>2. CASE Seal(p)
  <2> DEFINE rec == [source |-> page[p].base, sizes |-> [f \in FilesOf(p) |-> Size[page[p].base][f]]]
  <2>1. receipt' = [receipt EXCEPT ![Dir(p)] = rec]
    BY <1>2 DEF Seal
  <2>2. Honest(rec)
    BY DEF Honest
  <2>. QED  BY <2>1, <2>2 DEF FilesInv, ReceiptInv, TypeInv, StateOK, Honest
<1>3. UNCHANGED receipt \/ Seal(p)
  BY DEF Acts, Proceed, Visit, LoadRemembered, QueryPermission, ClickAction, ClickChange,
     Forget, Pick, RequestPermission, ReadReceipt, CheckFile, Verify, Remember, FetchSizes, Examine,
     Download, Measure, Reload, Leave, Decline, ShortWrite, DownloadFails, Crash, HandleUnread,
     HandleUnwritten, HandleKept, storage
<1>. QED  BY <1>1, <1>2, <1>3

(* Whoever edits a folder changes no other.                                *)
LEMMA EditFiles ==
  ASSUME FilesInv, NEW d \in Folder, EditFolder(d)
  PROVE  DiskInv' /\ ReceiptInv' /\ \A e \in Folder \ {d} : disk'[e] = disk[e]
<1>1. TypeInv /\ DiskInv /\ ReceiptInv
  BY DEF FilesInv
<1>2. CASE \E f \in File :
             /\ disk[d][f] # None
             /\ \/ disk' = [disk EXCEPT ![d][f] = None]
                \/ \E n \in Partial : disk' = [disk EXCEPT ![d][f].size = n]
             /\ UNCHANGED <<gone, receipt>>
  <2>1. PICK f \in File :
          /\ disk[d][f] # None
          /\ \/ disk' = [disk EXCEPT ![d][f] = None]
             \/ \E n \in Partial : disk' = [disk EXCEPT ![d][f].size = n]
          /\ UNCHANGED receipt
    BY <1>2
  <2>2. disk[d][f] \in Copy
    BY <1>1, <2>1 DEF TypeInv, StateOK
  <2>3. \A n \in Partial : /\ [disk[d][f] EXCEPT !.size = n] \in Copy
                           /\ [disk[d][f] EXCEPT !.size = n].size = n
    BY <2>2, GateAssumption DEF Copy
  <2>4. PICK copy \in Copy \cup {None} :
          /\ disk' = [disk EXCEPT ![d][f] = copy]
          /\ copy # None => copy.size \in Partial
    <3>1. CASE disk' = [disk EXCEPT ![d][f] = None]
      BY <3>1
    <3>2. CASE \E n \in Partial : disk' = [disk EXCEPT ![d][f].size = n]
      <4>1. PICK n \in Partial : disk' = [disk EXCEPT ![d][f].size = n]
        BY <3>2
      <4>2. disk' = [disk EXCEPT ![d][f] = [disk[d][f] EXCEPT !.size = n]]
        BY <4>1
      <4>. QED  BY <2>3, <4>2
    <3>. QED  BY <2>1, <3>1, <3>2
  <2>5. DiskInv'
    BY <2>4, FilesWrite
  <2>6. ReceiptInv'
    BY <1>1, <2>1 DEF ReceiptInv
  <2>. QED  BY <1>1, <2>4, <2>5, <2>6 DEF TypeInv, StateOK
<1>3. CASE /\ disk' = [disk EXCEPT ![d] = [f \in File |-> None]]
           /\ receipt' = [receipt EXCEPT ![d] = None]
  BY <1>1, <1>3 DEF DiskInv, ReceiptInv, TypeInv, StateOK
<1>. QED  BY <1>2, <1>3 DEF EditFolder

LEMMA FilesNext ==
  ASSUME FilesInv, [Next]_vars
  PROVE  FilesInv'
<1>1. TypeInv'
  BY TypesNext DEF FilesInv
<1>2. CASE UNCHANGED storage
  BY <1>1, <1>2 DEF FilesInv, DiskInv, ReceiptInv, storage
<1>3. ASSUME NEW p \in Page, Acts(p) PROVE FilesInv'
  <2>1. CASE UNCHANGED disk
    BY <1>1, <1>3, <2>1, ActsSeal DEF FilesInv, DiskInv
  <2>2. CASE DiskInv'
    BY <1>1, <1>3, <2>2, ActsSeal DEF FilesInv
  <2>. QED  BY <1>3, <2>1, <2>2, ActsWrite
<1>4. ASSUME NEW d \in Folder, EditFolder(d) PROVE FilesInv'
  BY <1>1, <1>4, EditFiles DEF FilesInv
<1>. QED  BY <1>2, <1>3, <1>4, NextCases

-----------------------------------------------------------------------------
(* Any number of pages: what a page has seen is so, unless another one     *)
(* changed its files meanwhile                                             *)

WholeInv == FilesInv /\ \A p \in Page : p \in disturbed \/ Seen(p, page[p], disk)

(* A page that starts to run does so from a folder that is whole.          *)
StartsWhole == \A p \in Page : StartsToRun(p) /\ p \notin disturbed => RunsWhole(p)'

LEMMA WholeInit == Init => WholeInv
<1>1. SUFFICES ASSUME Init PROVE WholeInv
  OBVIOUS
<1>2. \A p \in Page : \E s \in Source : page[p] = Closed(s)
  BY <1>1 DEF Init
<1>3. ASSUME NEW p \in Page, NEW s \in Source PROVE Seen(p, Closed(s), disk)
  BY ClosedForm DEF Seen
<1>4. DiskInv /\ ReceiptInv
  BY <1>1 DEF Init, DiskInv, ReceiptInv
<1>. QED  BY <1>1, <1>2, <1>3, <1>4, InitTypes DEF WholeInv, FilesInv

(* A page without a folder has seen nothing.                               *)
LEMMA SeenNothing ==
  ASSUME NEW p \in Page, NEW pg, Shape(p, pg), pg.dir = None, NEW dk
  PROVE  Seen(p, pg, dk)
BY GateAssumption DEF Seen, Shape, OnFolder

(* The page does nothing itself.                                           *)
LEMMA WholeOther ==
  ASSUME FilesInv, Next, NEW q \in Page, page'[q] = page[q], Seen(q, page[q], disk)
  PROVE  q \in disturbed' \/ Seen(q, page[q], disk)'
<1>1. page[q] \in PageState /\ Shape(q, page[q]) /\ (page[q].pc \in OnFolder => page[q].dir \in Folder)
  BY PageFacts DEF FilesInv, TypeInv
<1>2. CASE page[q].dir # None /\ Disturbs(q)
  BY <1>2 DEF Next, Watch
<1>3. CASE page[q].dir = None \/ ~ Disturbs(q)
  <2>1. page[q].pc \in OnFolder =>
          \A f \in FilesOf(q) : disk'[page[q].dir][f] = disk[page[q].dir][f]
    BY <1>1, <1>3, GateAssumption DEF Disturbs
  <2>2. Seen(q, page[q], disk')
    BY <1>1, <2>1, SeenLasts
  <2>. QED  BY <2>2 DEF Seen
<1>. QED  BY <1>2, <1>3

LEMMA WholeNext ==
  ASSUME WholeInv, [Next]_vars
  PROVE  WholeInv' /\ StartsWhole
<1>1. FilesInv /\ FilesInv' /\ TypeInv /\ TypeInv'
  BY FilesNext DEF WholeInv, FilesInv
<1>2. CASE UNCHANGED vars
  <2>1. UNCHANGED <<disk, page, disturbed>>
    BY <1>2 DEF vars, state
  <2>. QED  BY <1>1, <2>1 DEF WholeInv, StartsWhole, StartsToRun
<1>3. CASE Next
  <2>1. ASSUME NEW q \in Page
        PROVE  /\ q \in disturbed' \/ Seen(q, page[q], disk)'
               /\ StartsToRun(q) /\ q \notin disturbed => RunsWhole(q)'
    <3>1. CASE q \in disturbed
      <4>1. q \in disturbed' \/ page'[q].dir = None
        BY <1>3, <3>1 DEF Next, Watch
      <4>2. Shape(q, page[q])'
        BY <1>1 DEF TypeInv
      <4>3. Shape(q, page'[q])
        BY <4>2 DEF Shape
      <4>4. page'[q].dir = None => Seen(q, page'[q], disk')
        BY <4>3, SeenNothing
      <4>. QED  BY <3>1, <4>1, <4>4 DEF Seen
    <3>2. CASE q \notin disturbed
      <4>1. Seen(q, page[q], disk)
        BY <3>2 DEF WholeInv
      <4>2. ASSUME page'[q] = page[q] PROVE q \in disturbed' \/ Seen(q, page[q], disk)'
        BY <1>1, <1>3, <4>1, <4>2, WholeOther
      <4>3. page'[q] = page[q] => ~ StartsToRun(q)
        BY DEF StartsToRun
      <4>4. Acts(q) => Goes(q)
        BY <1>1, <4>1, WholeActs DEF Sees
      <4>5. Acts(q) \/ page'[q] = page[q]
        BY <1>1, <1>3, NextCases, ActsAlone
      <4>. QED  BY <4>2, <4>3, <4>4, <4>5 DEF Goes
    <3>. QED  BY <3>1, <3>2
  <2>. QED  BY <1>1, <2>1 DEF WholeInv, StartsWhole
<1>. QED  BY <1>2, <1>3

(* However many pages fill the same folders, from whatever repositories,   *)
(* and whatever stops, fails or is cut: a page starts to run only from a   *)
(* folder that holds its files whole and from one repository, unless       *)
(* another page changed one of them while it was at work on the folder.    *)
THEOREM StartsUndisturbed == Safety => BoundUndisturbed
<1>1. Init => WholeInv
  BY WholeInit
<1>2. WholeInv /\ [Next]_vars => WholeInv' /\ StartsWhole
  BY WholeNext
<1>3. WholeInv /\ [Next]_vars =>
        [\A p \in Page : StartsToRun(p) /\ p \notin disturbed => RunsWhole(p)']_vars
  BY <1>2 DEF StartsWhole
<1>. QED  BY <1>1, <1>2, <1>3, PTL DEF Safety, BoundUndisturbed

-----------------------------------------------------------------------------
(* With one page there is nobody to disturb it *)

OnePage == \A p, q \in Page : p = q

AloneInv == WholeInv /\ disturbed = {}

LEMMA AloneNext ==
  ASSUME OnePage, AloneInv, [Next]_vars
  PROVE  AloneInv' /\ StartsWhole
<1>1. WholeInv' /\ StartsWhole /\ FilesInv
  BY WholeNext DEF AloneInv, WholeInv
<1>2. CASE UNCHANGED vars
  BY <1>1, <1>2 DEF vars, AloneInv
<1>3. CASE Next
  <2>1. ASSUME NEW q \in Page, page'[q].dir # None, Disturbs(q) PROVE FALSE
    <3>1. page'[q] = page[q] /\ page[q].dir \in Folder
      BY <1>1, <2>1, PageFacts DEF Disturbs, FilesInv
    <3>2. PICK f \in FilesOf(q) : disk'[page[q].dir][f] # disk[page[q].dir][f]
      BY <2>1 DEF Disturbs
    <3>3. ASSUME NEW p \in Page, Acts(p) PROVE FALSE
      <4>1. p = q
        BY DEF OnePage
      <4>. QED  BY <1>1, <3>1, <3>2, <3>3, <4>1, ActsWrite
    <3>4. ASSUME UNCHANGED storage PROVE FALSE
      BY <3>2, <3>4 DEF storage
    <3>5. ASSUME NEW d \in Folder, EditFolder(d) PROVE FALSE
      <4>1. page[q].dir # d
        BY <3>5 DEF EditFolder, Untouched
      <4>. QED  BY <1>1, <3>1, <3>2, <3>5, <4>1, EditFiles
    <3>. QED  BY <3>3, <3>4, <3>5, NextCases
  <2>2. disturbed' = {}
    BY <1>3, <2>1 DEF Next, Watch, AloneInv
  <2>. QED  BY <1>1, <2>2 DEF AloneInv
<1>. QED  BY <1>2, <1>3

(* With one page, that is every start, whatever goes wrong.                *)
THEOREM StartsFromWholeFolder ==
  ASSUME OnePage
  PROVE  Safety => BoundWhole
<1>1. Init => AloneInv
  BY WholeInit DEF Init, AloneInv
<1>2. AloneInv /\ [Next]_vars => AloneInv' /\ StartsWhole
  BY AloneNext
<1>3. AloneInv /\ [Next]_vars => [\A p \in Page : StartsToRun(p) => RunsWhole(p)']_vars
  BY <1>2 DEF AloneInv, StartsWhole
<1>. QED  BY <1>1, <1>2, <1>3, PTL DEF Safety, BoundWhole

-----------------------------------------------------------------------------
(* What is remembered *)

EarnInv == KeepInv /\ WholeInv

LEMMA EarnStep ==
  ASSUME EarnInv, [Next]_vars, remembered' # remembered
  PROVE  \E p \in Page : Stores(p) \/ Drops(p)
<1>1. KeepInv /\ FilesInv /\ TypeInv
  BY DEF EarnInv, KeepInv, WholeInv, FilesInv
<1>2. PICK p \in Page : Acts(p)
  BY NextCases DEF EditFolder
<1>3. Forget(p) \/ Remember(p)
  BY <1>2 DEF Acts, Proceed, Visit, LoadRemembered, QueryPermission, ClickAction, ClickChange,
     Pick, RequestPermission, ReadReceipt, CheckFile, Verify, FetchSizes, Examine, Download,
     Measure, Seal, Reload, Leave, Decline, ShortWrite, DownloadFails, Crash, HandleUnread,
     HandleUnwritten, HandleKept
<1>4. CASE Forget(p)
  <2>1. /\ page[p].pc = "forget" /\ page[p].source = None /\ remembered' = None
        /\ Become(p, Gate(page[p], "choose")) /\ page[p] \in PageState
    BY <1>1, <1>4, KeepFacts DEF Forget, At, Keeps
  <2>2. page'[p].pc = "gate"
    BY <1>1, <2>1, GateForm DEF Become, TypeInv, StateOK
  <2>. QED  BY <2>1, <2>2 DEF Drops
<1>5. CASE Remember(p)
  <2>1. /\ page[p].pc = "remember" /\ remembered' = Dir(p) /\ Become(p, Usable(page[p]))
        /\ page[p] \in PageState /\ page[p].dir \in Folder
    BY <1>1, <1>5, PageFacts DEF Remember, At, OnFolder
  <2>2. page'[p].dir = None
    BY <1>1, <2>1, UsableForm DEF Become, TypeInv, StateOK
  <2>3. p \in disturbed \/ \E s \in Source : \A f \in FilesOf(p) : disk[Dir(p)][f] = Published(s, f)
    BY <2>1 DEF EarnInv, WholeInv, Seen, Whole, Dir
  <2>. QED  BY <2>1, <2>2, <2>3 DEF Stores
<1>. QED  BY <1>3, <1>4, <1>5

(* However many pages there are and whatever IndexedDB swallows: the       *)
(* remembered folder is replaced only by one that was found or made whole, *)
(* or that another page disturbed, and forgotten only by a page that runs  *)
(* from none.                                                              *)
THEOREM HandleIsEarned == Safety => HandleEarned
<1>1. Init => EarnInv
  BY KeepInit, WholeInit DEF EarnInv
<1>2. EarnInv /\ [Next]_vars => EarnInv'
  BY KeepNext, WholeNext DEF EarnInv
<1>3. EarnInv /\ [Next]_vars =>
        [remembered' # remembered => \E p \in Page : Stores(p) \/ Drops(p)]_vars
  BY EarnStep
<1>. QED  BY <1>1, <1>2, <1>3, PTL DEF Safety, HandleEarned
=============================================================================
