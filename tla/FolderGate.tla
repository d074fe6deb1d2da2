----------------------------- MODULE FolderGate -----------------------------
(***************************************************************************)
(* The folder the image and video demos read their weights from: the gate  *)
(* that asks for it (gate.ts), filling it and the receipt that says it is  *)
(* full (provision.ts), and the one handle the browser remembers for all   *)
(* pages of the origin (bound-folder.ts); in examples/web-common/src.      *)
(*                                                                         *)
(* One step of a page is what the code does between two awaits, except     *)
(* that the download of one file is one step: its bytes become visible     *)
(* only when the writable is closed.  A file on disk is the first so many  *)
(* units of what a repository publishes under its name.                    *)
(***************************************************************************)
EXTENDS Naturals, Sequences

CONSTANTS
  Page,       \* the tabs
  Plan,       \* Plan[p]: the files page p needs, in download order
  Folder,     \* the folders a visitor may pick
  File,       \* file names
  Source,     \* the repositories, weightsBase
  Bases,      \* Bases[p]: the ones page p is opened for, "?weights="
  Size,       \* Size[s][f]: the length of file f in repository s
  Partial,    \* lengths a file is left with when it is not whole
  MaxFaults,  \* how many faults and refusals a behaviour may contain
  None        \* no folder, file, receipt

(* A length tells a whole file of one repository from anything else.  The  *)
(* header of provision.ts names the case this leaves out: a file of the    *)
(* right length with the wrong bytes.                                      *)
ASSUME GateAssumption ==
  /\ Plan \in [Page -> Seq(File)] /\ \A p \in Page : Plan[p] # <<>>
  /\ Bases \in [Page -> SUBSET Source]
  /\ Size \in [Source -> [File -> Nat \ {0}]]
  /\ \A f \in File : \A s, t \in Source : Size[s][f] = Size[t][f] => s = t
  /\ Partial \subseteq Nat
  /\ \A s \in Source : \A f \in File : Size[s][f] \notin Partial
  /\ MaxFaults \in Nat
  /\ None \notin Folder

VARIABLES
  disk,        \* disk[d][f]: file f of folder d
  gone,        \* folders that no longer exist
  receipt,     \* receipt[d]: provisioned.json of folder d
  remembered,  \* the handle in IndexedDB
  granted,     \* folders the origin may write to
  page,        \* page[p]: the state of page p
  faults,      \* history: faults so far
  disturbed    \* history: pages another one changed a file of under their hands

state == <<disk, gone, receipt, remembered, granted, page, faults>>

vars == <<state, disturbed>>

storage == <<disk, gone, receipt>>

-----------------------------------------------------------------------------
(* Files, receipts, pages *)

Copy == [from : Source, size : Nat]

ASSUME NoneAssumption == None \notin Copy

Published(s, f) == [from |-> s, size |-> Size[s][f]]

FilesOf(p) == {Plan[p][i] : i \in DOMAIN Plan[p]}

Length == {Size[s][f] : s \in Source, f \in File}

Receipt == [source : Source, sizes : UNION {[S -> Length] : S \in SUBSET File}]

Phase == {"closed", "load", "query", "receipt", "check", "gate", "pick", "request",
          "sizes", "examine", "write", "measure", "seal", "verify", "remember",
          "forget", "bound"}

PageState ==
  [pc     : Phase,
   flow   : {"load", "open", "change"},  \* requireBoundFolder on load, its button, wireChangeFolder's
   base   : Source,                      \* where this page fills a folder from
   offer  : Folder \cup {None},          \* the folder remembered when the page loaded
   label  : {"again", "choose"},         \* what the button says
   dir    : Folder \cup {None},          \* the handle bindFolder works on
   rec    : Receipt \cup {None},         \* the receipt being compared
   todo   : SUBSET File,                 \* what it still has to be compared with
   next   : Nat,                         \* the file of the plan that is next
   source : Folder \cup {None}]          \* the folder the page runs from

Closed(s) == [pc |-> "closed", flow |-> "load", base |-> s, offer |-> None, label |-> "choose",
              dir |-> None, rec |-> None, todo |-> {}, next |-> 1, source |-> None]

Become(p, pg) == page' = [page EXCEPT ![p] = pg]

At(p, pc) == page[p].pc = pc

(* The handle, file, and length page p is at.                              *)
Dir(p) == page[p].dir

NextFile(p) == Plan[p][page[p].next]

Want(p) == Size[page[p].base][NextFile(p)]

Fault == faults < MaxFaults /\ faults' = faults + 1

(* The page waits at its dialog, having forgotten what it tried.           *)
Gate(pg, label) ==
  [pg EXCEPT !.pc = "gate", !.label = label, !.dir = None, !.rec = None, !.todo = {},
             !.next = 1]

(* The page runs from folder d.                                            *)
Bound(pg, d) ==
  [Closed(pg.base) EXCEPT !.pc = "bound", !.source = d]

(* bindFolder returns null: the button is offered again, or the page goes  *)
(* on with the folder it has.                                              *)
Refused(pg) == IF pg.flow = "open" THEN Gate(pg, "choose") ELSE Bound(pg, pg.source)

(* Mutant: every handler forgets.                                          *)
Thrown_Forgets(pg) == [pg EXCEPT !.pc = "forget"]

(* bindFolder throws: only the gate's own handler forgets the folder.      *)
Thrown(pg) == IF pg.flow = "open" THEN [pg EXCEPT !.pc = "forget"] ELSE Bound(pg, pg.source)

Init ==
  /\ disk = [d \in Folder |-> [f \in File |-> None]]
  /\ gone = {}
  /\ receipt = [d \in Folder |-> None]
  /\ remembered = None
  /\ granted = {}
  /\ page \in {pg \in [Page -> {Closed(s) : s \in Source}] : \A p \in Page : pg[p].base \in Bases[p]}
  /\ faults = 0
  /\ disturbed = {}

-----------------------------------------------------------------------------
(* requireBoundFolder *)

Visit(p) ==
  /\ At(p, "closed")
  /\ \E s \in Bases[p] : Become(p, [Closed(s) EXCEPT !.pc = "load"])
  /\ UNCHANGED <<storage, remembered, granted, faults>>

LoadRemembered(p) ==
  /\ At(p, "load")
  /\ Become(p, IF remembered = None
                 THEN Gate(page[p], "choose")
                 ELSE [page[p] EXCEPT !.pc = "query", !.offer = remembered, !.dir = remembered])
  /\ UNCHANGED <<storage, remembered, granted, faults>>

QueryPermission(p) ==
  /\ At(p, "query")
  /\ Become(p, IF Dir(p) \in granted THEN [page[p] EXCEPT !.pc = "receipt"]
                                     ELSE Gate(page[p], "again"))
  /\ UNCHANGED <<storage, remembered, granted, faults>>

(* The button works on the folder that was remembered when the page        *)
(* loaded, whatever it says by now.                                        *)
ClickAction(p) ==
  /\ At(p, "gate")
  /\ Become(p, [page[p] EXCEPT !.flow = "open",
                               !.dir = page[p].offer,
                               !.pc = IF page[p].offer = None THEN "pick" ELSE "request"])
  /\ UNCHANGED <<storage, remembered, granted, faults>>

(* The "change folder" button and the one in its dialog.                   *)
ClickChange(p) ==
  /\ At(p, "bound")
  /\ Become(p, [page[p] EXCEPT !.flow = "change", !.pc = "pick"])
  /\ UNCHANGED <<storage, remembered, granted, faults>>

(* Mutant: the folder that cannot be filled stays remembered.              *)
Forget_Keeps(p) ==
  /\ At(p, "forget")
  /\ Become(p, Gate(page[p], "choose"))
  /\ UNCHANGED <<storage, remembered, granted, faults>>

(* forgetFolder, after bindFolder threw.                                   *)
Forget(p) ==
  /\ At(p, "forget")
  /\ remembered' = None
  /\ Become(p, Gate(page[p], "choose"))
  /\ UNCHANGED <<storage, granted, faults>>

-----------------------------------------------------------------------------
(* bindFolder *)

(* The picker grants what it picks.                                        *)
Pick(p) ==
  /\ At(p, "pick")
  /\ \E d \in Folder \ gone :
       /\ granted' = granted \cup {d}
       /\ Become(p, [page[p] EXCEPT !.pc = "request", !.dir = d])
  /\ UNCHANGED <<storage, remembered, faults>>

RequestPermission(p) ==
  /\ At(p, "request")
  /\ granted' = granted \cup {Dir(p)}
  /\ Become(p, [page[p] EXCEPT !.pc = "receipt"])
  /\ UNCHANGED <<storage, remembered, faults>>

(* The visitor closes the picker or declines the prompt.                   *)
Decline(p) ==
  /\ At(p, "pick") \/ (At(p, "request") /\ Dir(p) \notin granted)
  /\ Fault
  /\ Become(p, Refused(page[p]))
  /\ UNCHANGED <<storage, remembered, granted>>

(* Mutant: a folder without a receipt is refused, not filled.              *)
Unfilled_Refuses(pg) == Gate(pg, "again")

(* readReceipt returns null: the gate on load, filling for bindFolder.     *)
Unfilled(pg) ==
  IF pg.flow = "load" THEN Gate(pg, "again")
                      ELSE [pg EXCEPT !.pc = "sizes", !.rec = None, !.todo = {}]

Filled(pg) ==
  IF pg.flow = "load" THEN Bound(pg, pg.dir)
                      ELSE [pg EXCEPT !.pc = "verify", !.rec = None]

(* Mutant: any receipt will do.                                            *)
Covers_Any(rec, p) == rec # None

(* There is a receipt and it names every file this page needs.             *)
Covers(rec, p) == rec # None /\ FilesOf(p) \subseteq DOMAIN rec.sizes

ReadReceipt(p) ==
  /\ At(p, "receipt")
  /\ LET rec == receipt[Dir(p)]
     IN  Become(p, IF Covers(rec, p)
                     THEN [page[p] EXCEPT !.pc = "check", !.rec = rec, !.todo = DOMAIN rec.sizes]
                     ELSE Unfilled(page[p]))
  /\ UNCHANGED <<storage, remembered, granted, faults>>

LengthIs(d, f, n) == disk[d][f] # None /\ disk[d][f].size = n

(* readReceipt goes on: the folder is compared with the receipt.           *)
CheckFile(p) ==
  /\ At(p, "check")
  /\ \E f \in page[p].todo :
       LET pg == [page[p] EXCEPT !.todo = @ \ {f}]
       IN  Become(p, IF ~LengthIs(Dir(p), f, pg.rec.sizes[f]) THEN Unfilled(pg)
                     ELSE IF pg.todo = {} THEN Filled(pg)
                     ELSE pg)
  /\ UNCHANGED <<storage, remembered, granted, faults>>

(* The last look: every file is there.                                     *)
Verify(p) ==
  /\ At(p, "verify")
  /\ LET pg == page[p]
     IN  Become(p, IF disk[pg.dir][NextFile(p)] = None THEN Refused(pg)
                   ELSE IF pg.next < Len(Plan[p]) THEN [pg EXCEPT !.next = @ + 1]
                   ELSE [pg EXCEPT !.pc = "remember"])
  /\ UNCHANGED <<storage, remembered, granted, faults>>

(* The folder is usable: the dialog closes, or the page is reloaded.       *)
Usable(pg) == IF pg.flow = "open" THEN Bound(pg, pg.dir) ELSE [Closed(pg.base) EXCEPT !.pc = "load"]

Remember(p) ==
  /\ At(p, "remember")
  /\ remembered' = Dir(p)
  /\ Become(p, Usable(page[p]))
  /\ UNCHANGED <<storage, granted, faults>>

(* transact resolves with null whatever becomes of IndexedDB: the handle   *)
(* is not found, or not stored, and the page goes on.                      *)
HandleUnread(p) ==
  /\ At(p, "load")
  /\ Become(p, Gate(page[p], "choose"))
  /\ UNCHANGED <<storage, remembered, granted, faults>>

HandleUnwritten(p) ==
  /\ At(p, "remember")
  /\ Become(p, Usable(page[p]))
  /\ UNCHANGED <<storage, remembered, granted, faults>>

(* The handle of a folder that could not be filled is not deleted either.  *)
(* It will be offered again, so this happens MaxFaults times at most.      *)
HandleKept(p) ==
  /\ At(p, "forget")
  /\ Fault
  /\ Become(p, Gate(page[p], "choose"))
  /\ UNCHANGED <<storage, remembered, granted>>

-----------------------------------------------------------------------------
(* provision *)

FetchSizes(p) ==
  /\ At(p, "sizes")
  /\ Become(p, [page[p] EXCEPT !.pc = "examine", !.next = 1])
  /\ UNCHANGED <<storage, remembered, granted, faults>>

(* On to the next file, or to the receipt.                                 *)
NextOrSeal(p) ==
  IF page[p].next < Len(Plan[p]) THEN [page[p] EXCEPT !.pc = "examine", !.next = @ + 1]
                                 ELSE [page[p] EXCEPT !.pc = "seal", !.next = 1]

(* A file of the right length is skipped; another one is created, empty,   *)
(* if it is not there.                                                     *)
Examine(p) ==
  /\ At(p, "examine")
  /\ IF LengthIs(Dir(p), NextFile(p), Want(p))
       THEN Become(p, NextOrSeal(p)) /\ UNCHANGED disk
       ELSE IF Dir(p) \in gone
       THEN Become(p, Thrown(page[p])) /\ UNCHANGED disk
       ELSE /\ Become(p, [page[p] EXCEPT !.pc = "write"])
            /\ disk' = IF disk[Dir(p)][NextFile(p)] = None
                         THEN [disk EXCEPT ![Dir(p)][NextFile(p)] =
                                 [from |-> page[p].base, size |-> 0]]
                         ELSE disk
  /\ UNCHANGED <<gone, receipt, remembered, granted, faults>>

(* All chunks are written and the writable is closed.                      *)
Download(p) ==
  /\ At(p, "write")
  /\ disk' = [disk EXCEPT ![Dir(p)][NextFile(p)] = Published(page[p].base, NextFile(p))]
  /\ Become(p, [page[p] EXCEPT !.pc = "measure"])
  /\ UNCHANGED <<gone, receipt, remembered, granted, faults>>

(* The disk is full and says nothing.                                      *)
ShortWrite(p) ==
  /\ At(p, "write")
  /\ Fault
  /\ \E n \in Partial :
       disk' = [disk EXCEPT ![Dir(p)][NextFile(p)] = [from |-> page[p].base, size |-> n]]
  /\ Become(p, [page[p] EXCEPT !.pc = "measure"])
  /\ UNCHANGED <<gone, receipt, remembered, granted>>

(* A request or the receipt's write fails.  The writable is aborted: the   *)
(* file is as it was.                                                      *)
DownloadFails(p) ==
  /\ page[p].pc \in {"sizes", "write", "seal"}
  /\ Fault
  /\ Become(p, Thrown(page[p]))
  /\ UNCHANGED <<storage, remembered, granted>>

(* Mutant: what was written is not measured.                               *)
Measure_Trusting(p) ==
  /\ At(p, "measure")
  /\ Become(p, NextOrSeal(p))
  /\ UNCHANGED <<storage, remembered, granted, faults>>

Measure(p) ==
  /\ At(p, "measure")
  /\ Become(p, IF LengthIs(Dir(p), NextFile(p), Want(p)) THEN NextOrSeal(p) ELSE Thrown(page[p]))
  /\ UNCHANGED <<storage, remembered, granted, faults>>

(* Mutant: the end of the last range is taken for the length.              *)
Seal_End(p) ==
  /\ At(p, "seal")
  /\ receipt' = [receipt EXCEPT ![Dir(p)] =
                   [source |-> page[p].base,
                    sizes |-> [f \in FilesOf(p) |-> Size[page[p].base][f] - 1]]]
  /\ Become(p, [page[p] EXCEPT !.pc = "verify"])
  /\ UNCHANGED <<disk, gone, remembered, granted, faults>>

(* The receipt, last.                                                      *)
Seal(p) ==
  /\ At(p, "seal")
  /\ receipt' = [receipt EXCEPT ![Dir(p)] =
                   [source |-> page[p].base, sizes |-> [f \in FilesOf(p) |-> Size[page[p].base][f]]]]
  /\ Become(p, [page[p] EXCEPT !.pc = "verify"])
  /\ UNCHANGED <<disk, gone, remembered, granted, faults>>

-----------------------------------------------------------------------------
(* The visitor and the browser *)

(* Reloading after a refusal.                                              *)
Reload(p) ==
  /\ At(p, "gate") /\ page[p].label = "choose" /\ page[p].offer # None
  /\ Become(p, [Closed(page[p].base) EXCEPT !.pc = "load"])
  /\ UNCHANGED <<storage, remembered, granted, faults>>

Leave(p) ==
  /\ At(p, "bound")
  /\ Become(p, Closed(page[p].base))
  /\ UNCHANGED <<storage, remembered, granted, faults>>

(* The tab is closed in the middle; an open writable is discarded.         *)
Crash(p) ==
  /\ page[p].pc \notin {"closed", "bound"}
  /\ Fault
  /\ Become(p, Closed(page[p].base))
  /\ UNCHANGED <<storage, remembered, granted>>

(* The browser drops permissions between sessions.                         *)
EndSession ==
  /\ \A p \in Page : At(p, "closed")
  /\ granted' = {}
  /\ UNCHANGED <<storage, remembered, page, faults>>

(* No page is working on the folder.                                       *)
Untouched(d) == \A p \in Page : page[p].dir # d

(* Someone deletes or cuts a file, or deletes the folder.                  *)
EditFolder(d) ==
  /\ Untouched(d)
  /\ Fault
  /\ \/ \E f \in File :
          /\ disk[d][f] # None
          /\ \/ disk' = [disk EXCEPT ![d][f] = None]
             \/ \E n \in Partial : disk' = [disk EXCEPT ![d][f].size = n]
          /\ UNCHANGED <<gone, receipt>>
     \/ /\ Folder \ gone # {d}
        /\ gone' = gone \cup {d}
        /\ disk' = [disk EXCEPT ![d] = [f \in File |-> None]]
        /\ receipt' = [receipt EXCEPT ![d] = None]
  /\ UNCHANGED <<remembered, granted, page>>

-----------------------------------------------------------------------------
(* What goes on by itself, or because a visitor wants pictures.            *)
Proceed(p) ==
  \/ Visit(p) \/ LoadRemembered(p) \/ QueryPermission(p) \/ ClickAction(p) \/ Forget(p)
  \/ Pick(p) \/ RequestPermission(p) \/ ReadReceipt(p) \/ CheckFile(p) \/ Verify(p) \/ Remember(p)
  \/ FetchSizes(p) \/ Examine(p) \/ Download(p) \/ Measure(p) \/ Seal(p)

Step ==
  \/ \E p \in Page : \/ Proceed(p)
                     \/ ClickChange(p) \/ Reload(p) \/ Leave(p)
                     \/ Decline(p) \/ ShortWrite(p) \/ DownloadFails(p) \/ Crash(p)
                     \/ HandleUnread(p) \/ HandleUnwritten(p) \/ HandleKept(p)
  \/ EndSession
  \/ \E d \in Folder : EditFolder(d)

(* A file q needs changes in the folder q is at work on, and q did not do  *)
(* it.                                                                     *)
Disturbs(q) ==
  /\ page'[q] = page[q]
  /\ \E f \in FilesOf(q) : disk'[page[q].dir][f] # disk[page[q].dir][f]

(* It counts until the page lets go of the folder.                         *)
Watch == disturbed' = {q \in Page : page'[q].dir # None /\ (q \in disturbed \/ Disturbs(q))}

Next == Step /\ Watch

(* A visitor goes on, and reloads a page that keeps refusing.              *)
Fairness == \A p \in Page : WF_state(Proceed(p)) /\ SF_state(Reload(p))

Safety == Init /\ [][Next]_vars

Spec == Safety /\ Fairness

-----------------------------------------------------------------------------
(* Properties *)

StateOK ==
  /\ disk \in [Folder -> [File -> Copy \cup {None}]]
  /\ gone \subseteq Folder
  /\ receipt \in [Folder -> Receipt \cup {None}]
  /\ remembered \in Folder \cup {None}
  /\ granted \subseteq Folder
  /\ page \in [Page -> PageState]
  /\ faults \in 0 .. MaxFaults

(* The folders and the pages have the shapes the code gives them.          *)
TypeOK == StateOK /\ disturbed \subseteq Page

StartsToRun(p) == page[p].source = None /\ page'[p].source # None

(* The folder p runs from holds p's files whole, all of one repository.    *)
RunsWhole(p) ==
  \E s \in Source : \A f \in FilesOf(p) : disk[page[p].source][f] = Published(s, f)

(* A page starts to run only from a folder that holds all its files whole  *)
(* and from one repository: never from a download that stopped, a short    *)
(* write, a folder someone has edited, a folder two repositories were      *)
(* mixed in, or another page's folder (provision.ts's "partial success").  *)
BoundWhole ==
  [][\A p \in Page : StartsToRun(p) => RunsWhole(p)']_vars

(* The same with several pages at work on one folder, for a page whose     *)
(* files there no other page changed while it was at work on it: nobody    *)
(* else's receipt, repository or short write gets past it.                 *)
BoundUndisturbed ==
  [][\A p \in Page : StartsToRun(p) /\ p \notin disturbed => RunsWhole(p)']_vars

(* What is remembered changes in two ways only, whatever IndexedDB         *)
(* swallows: to a folder that holds whole, from one repository, the files  *)
(* of the page that stores it (or that another page disturbed), "only      *)
(* once it is usable"; or to nothing, by a page that runs from nothing:    *)
(* "The old folder is not forgotten" (gate.ts).                            *)
Stores(p) ==
  /\ Dir(p) = remembered' /\ page'[p].dir = None
  /\ \/ p \in disturbed
     \/ \E s \in Source : \A f \in FilesOf(p) : disk[Dir(p)][f] = Published(s, f)

Drops(p) == remembered' = None /\ page[p].source = None /\ page'[p] # page[p]

HandleEarned ==
  [][remembered' # remembered => \E p \in Page : Stores(p) \/ Drops(p)]_vars

(* A visitor who goes on gets to run the page, again and again, unless the *)
(* pages of two repositories go on filling one folder from both.           *)
Binds ==
  \/ []<>(\E p, q \in Page : page[p].base # page[q].base)
  \/ \A p \in Page : []<>At(p, "bound")

(* gate.ts on a refused folder: "Offer the picker rather than the          *)
(* remembered folder": a button that says so opens the picker.             *)
ChooseOpensPicker ==
  [][\A p \in Page :
       /\ At(p, "gate") /\ page[p].label = "choose"
       /\ page'[p].flow = "open" /\ page'[p].pc # "gate"
       => page'[p].pc = "pick"]_vars
=============================================================================
