----------------------------- MODULE Instrument -----------------------------
(***************************************************************************)
(* The two seats of an exported workbench document: the page               *)
(* (gat/workbench.py, its script) and the STRUCTURE viewer it embeds in a  *)
(* sandboxed frame (gat/geometry/viewer.py, its script).  They share no    *)
(* state; each keeps a selection of its own and posts messages, which a    *)
(* channel in each direction delivers in order.                            *)
(*                                                                         *)
(* Both seats obey their users at once, either may be loaded before the    *)
(* other or loaded again, and the page also obeys its URL hash.  What is   *)
(* rendered from a selection is a function of it and left out, and so is   *)
(* the world digest of a message: page and frame are made of one payload.  *)
(***************************************************************************)
EXTENDS Naturals, Sequences

CONSTANTS
  Entities,     \* DATA.state.entities, by EntityId
  Elements,     \* SCENE.elements: the entities the viewer draws
  Modes,        \* the modes of the toolbar
  FirstMode,    \* STRUCTURE
  Unknown,      \* what a hash may hold that names nothing
  Malformed,    \* what no link holds unbroken: decodeURIComponent throws
  Inherited,    \* no EntityId, but in every object: toString, constructor
  Nothing,      \* null
  MaxActs       \* how often users act

ASSUME InstrumentAssumption ==
  /\ Elements \subseteq Entities
  /\ FirstMode \in Modes
  /\ Unknown \notin Entities \cup Modes
  /\ Nothing \notin Entities \cup Modes \cup {Unknown}
  /\ {Malformed, Inherited} \cap (Entities \cup Modes \cup {Unknown, Nothing}) = {}
  /\ Malformed # Inherited
  /\ MaxActs \in Nat

VARIABLES
  page,       \* the page's script: booted, mode, selection, structureReady
  frame,      \* the viewer's script: booted, selected
  hash,       \* location.hash
  edited,     \* a hashchange event is queued
  toPage,     \* messages posted to the page
  toFrame,    \* messages posted to the frame
  crossed,    \* a user acted on one seat while the other's word was under way
  acts        \* what users did so far

vars == <<page, frame, hash, edited, toPage, toFrame, crossed, acts>>

Selections == Entities \cup {Nothing}

Ready          == [kind |-> "ready"]
Selection(e)   == [kind |-> "selection", entity |-> e]
Select(e)      == [kind |-> "select", entity |-> e]

Blank     == [booted |-> FALSE, mode |-> Nothing, selection |-> Nothing, ready |-> FALSE]
DarkFrame == [booted |-> FALSE, selected |-> Nothing]

View(p) == [mode |-> p.mode, entity |-> p.selection]

Quiet == toPage = <<>> /\ toFrame = <<>>

IsIn(m, channel) == \E i \in DOMAIN channel : channel[i] = m

-----------------------------------------------------------------------------
(* The page *)

(* select, of an entity of the payload: what came from the frame is not    *)
(* sent back, and before the frame is ready nothing is sent.               *)
PageSelects(e, origin) ==
  /\ page' = [page EXCEPT !.selection = e]
  /\ toFrame' = IF origin # "structure" /\ page.ready
                  THEN Append(toFrame, Select(e)) ELSE toFrame
  /\ hash' = View(page')

(* What applyHash makes of a hash that decodes: `in ENTITIES` is asked of  *)
(* a plain object, and so true of what it inherits.                        *)
Decodes == hash.entity # Malformed

WantedMode(fallback) == IF hash.mode \in Modes THEN hash.mode ELSE fallback

WantedEntity ==
  IF hash.entity \in Entities \cup {Inherited} THEN hash.entity ELSE Nothing

(* The selection it wants is another one, and select runs to its end:      *)
(* rendering the card of an inherited name throws.                         *)
HashSelects == Decodes /\ WantedEntity \notin {page.selection, Inherited}

(* applyHash: readHash, which throws on what does not decode; showMode,    *)
(* which takes no notice of what is no mode and else writes the hash with  *)
(* the selection before; then select, which keeps the selection, and       *)
(* unless rendering it throws, posts it and writes the hash.               *)
ApplyHash(fallback) ==
  LET wanted == WantedMode(fallback)
      before == [page EXCEPT !.booted = TRUE]
      shown  == IF wanted \in Modes THEN [before EXCEPT !.mode = wanted] ELSE before
  IN  IF Decodes
        THEN /\ page' = [shown EXCEPT !.selection = WantedEntity]
             /\ hash' = IF HashSelects THEN View(page')
                        ELSE IF wanted \in Modes THEN View(shown) ELSE hash
             /\ toFrame' = IF HashSelects /\ page.ready
                             THEN Append(toFrame, Select(WantedEntity)) ELSE toFrame
        ELSE page' = before /\ UNCHANGED <<hash, toFrame>>

(* Slip: the mode is shown, and so written, before the hash is read.       *)
BootPageForgetting ==
  /\ ~ page.booted
  /\ page' = [page EXCEPT !.booted = TRUE, !.mode = WantedMode(FirstMode)]
  /\ hash' = View(page')
  /\ UNCHANGED <<frame, edited, toPage, toFrame, crossed, acts>>

(* The page's script runs from its top to applyHash("STRUCTURE"), which    *)
(* reads the hash before showMode writes it.  It is the last thing the     *)
(* script does: the page listens even if it throws.                        *)
BootPage ==
  /\ ~ page.booted
  /\ ApplyHash(FirstMode)
  /\ UNCHANGED <<frame, edited, toPage, crossed, acts>>

(* showMode, by a button or a key.                                         *)
ShowMode(mode) ==
  /\ page.booted
  /\ page' = [page EXCEPT !.mode = mode]
  /\ hash' = View(page')
  /\ acts' = acts + 1
  /\ UNCHANGED <<frame, edited, toPage, toFrame, crossed>>

(* What a selection on one seat crosses: a word of the other seat that is  *)
(* still under way.  One made when all is quiet starts afresh.             *)
CrossesPage  == \E i \in DOMAIN toPage : toPage[i].kind = "selection"
CrossesFrame == toFrame # <<>> \/ IsIn(Ready, toPage)

Crossing(meets) == crossed' = (meets \/ (crossed /\ ~ Quiet))

(* A node of GRAPH, an entry of STATE, the clear button, Escape.           *)
SelectOnPage(e) ==
  /\ page.booted
  /\ PageSelects(e, "page")
  /\ Crossing(CrossesPage)
  /\ acts' = acts + 1
  /\ UNCHANGED <<frame, edited, toPage>>

(* The user writes another hash.  The event comes later.                   *)
EditHash(wanted) ==
  /\ page.booted
  /\ hash' = wanted /\ edited' = TRUE
  /\ acts' = acts + 1
  /\ UNCHANGED <<page, frame, toPage, toFrame, crossed>>

(* applyHash(null), of the hash as it is by now.                           *)
HashChange ==
  /\ edited /\ page.booted
  /\ edited' = FALSE
  /\ ApplyHash(page.mode)
  /\ IF HashSelects THEN Crossing(CrossesPage) ELSE UNCHANGED crossed
  /\ UNCHANGED <<frame, toPage, acts>>

(* Slip: that the frame is ready is noted, and no more.                    *)
DeliverToPageUnreplayed ==
  /\ toPage # <<>>
  /\ toPage' = Tail(toPage)
  /\ LET m == Head(toPage)
     IN  CASE ~ page.booted -> UNCHANGED <<page, hash, toFrame>>
           [] page.booted /\ m.kind = "ready" ->
                page' = [page EXCEPT !.ready = TRUE] /\ UNCHANGED <<hash, toFrame>>
           [] page.booted /\ m.kind = "selection" -> PageSelects(m.entity, "structure")
  /\ UNCHANGED <<frame, edited, crossed, acts>>

(* The page's message handler; nobody listens before the script has run.   *)
DeliverToPage ==
  /\ toPage # <<>>
  /\ toPage' = Tail(toPage)
  /\ LET m == Head(toPage)
     IN  CASE ~ page.booted -> UNCHANGED <<page, hash, toFrame>>
           [] page.booted /\ m.kind = "ready" ->
                /\ page' = [page EXCEPT !.ready = TRUE]
                /\ toFrame' = IF page.selection # Nothing
                                THEN Append(toFrame, Select(page.selection)) ELSE toFrame
                /\ UNCHANGED hash
           [] page.booted /\ m.kind = "selection" ->
                IF m.entity \in Selections
                  THEN PageSelects(m.entity, "structure")
                  ELSE UNCHANGED <<page, hash, toFrame>>
  /\ UNCHANGED <<frame, edited, crossed, acts>>

-----------------------------------------------------------------------------
(* The viewer *)

(* The viewer's script runs to its end, where it says it is ready.         *)
BootFrame ==
  /\ ~ frame.booted
  /\ frame' = [booted |-> TRUE, selected |-> Nothing]
  /\ toPage' = Append(toPage, Ready)
  /\ UNCHANGED <<page, hash, edited, toFrame, crossed, acts>>

(* selectElement, by a click into the scene or Escape, and the             *)
(* announceSelection it ends in.                                           *)
SelectInFrame(e) ==
  /\ frame.booted
  /\ frame' = [frame EXCEPT !.selected = e]
  /\ toPage' = Append(toPage, Selection(e))
  /\ Crossing(CrossesFrame)
  /\ acts' = acts + 1
  /\ UNCHANGED <<page, hash, edited, toFrame>>

(* Slip: the viewer says that it is ready whenever it has selected.        *)
DeliverToFrameAloud ==
  /\ toFrame # <<>>
  /\ toFrame' = Tail(toFrame)
  /\ LET e == Head(toFrame).entity
     IN  IF frame.booted /\ e \in Elements \cup {Nothing}
           THEN /\ frame' = [frame EXCEPT !.selected = e]
                /\ toPage' = Append(toPage, Ready)
           ELSE UNCHANGED <<frame, toPage>>
  /\ UNCHANGED <<page, hash, edited, crossed, acts>>

(* The viewer's message handler: an entity it draws is selected quietly,   *)
(* null clears quietly, and of any other entity it takes no notice.        *)
DeliverToFrame ==
  /\ toFrame # <<>>
  /\ toFrame' = Tail(toFrame)
  /\ LET e == Head(toFrame).entity
     IN  frame' = IF frame.booted /\ e \in Elements \cup {Nothing}
                    THEN [frame EXCEPT !.selected = e] ELSE frame
  /\ UNCHANGED <<page, hash, edited, toPage, crossed, acts>>

-----------------------------------------------------------------------------
(* The browser *)

(* The frame is loaded again, and with it the viewer.  What was posted to  *)
(* the old document is lost.                                               *)
ReloadFrame ==
  /\ frame.booted
  /\ frame' = DarkFrame /\ toFrame' = <<>>
  /\ acts' = acts + 1
  /\ UNCHANGED <<page, hash, edited, toPage, crossed>>

(* The document is loaded again, frame and all.  Only the hash remains.    *)
ReloadPage ==
  /\ page' = Blank /\ frame' = DarkFrame
  /\ toPage' = <<>> /\ toFrame' = <<>>
  /\ edited' = FALSE /\ crossed' = FALSE
  /\ acts' = acts + 1
  /\ UNCHANGED hash

Hashes == [mode : Modes \cup {Unknown},
           entity : Entities \cup {Unknown, Malformed, Inherited, Nothing}]

(* A document may be opened by a link that names a view.                   *)
Init ==
  /\ page = Blank /\ frame = DarkFrame
  /\ hash \in Hashes /\ edited = FALSE
  /\ toPage = <<>> /\ toFrame = <<>>
  /\ crossed = FALSE /\ acts = 0

Act ==
  /\ acts < MaxActs
  /\ \/ \E mode \in Modes : ShowMode(mode)
     \/ \E e \in Selections : SelectOnPage(e)
     \/ \E wanted \in Hashes : EditHash(wanted)
     \/ \E e \in Elements \cup {Nothing} : SelectInFrame(e)
     \/ ReloadFrame
     \/ ReloadPage

Scripts == BootPage \/ BootFrame \/ HashChange \/ DeliverToPage \/ DeliverToFrame

Next == Act \/ Scripts

(* A browser runs the scripts it loads and delivers what is posted.  Users *)
(* need not do anything.                                                   *)
Spec == Init /\ [][Next]_vars /\ WF_vars(Scripts)

-----------------------------------------------------------------------------
(* Properties *)

Listening == page.booted /\ frame.booted /\ page.ready

(* The one selection: when nothing is under way, both seats show the same. *)
SameSelection ==
  (Listening /\ Quiet /\ page.selection \in Elements \cup {Nothing})
    => frame.selected = page.selection

(* The seats agree however their loads, reloads, selections and hash edits *)
(* interleave, unless selections crossed on the way; and a selection made  *)
(* when all was quiet mends that.  An entity the viewer does not draw, and *)
(* a frame whose "ready" was posted before the page could listen, are the  *)
(* two cases in which the seats may differ without a crossing.             *)
SeatsAgreeUnlessCrossed == ~ crossed => SameSelection

(* A link that does not decode, or that names no entity but an inherited   *)
(* property, leads the page astray: no mode or no entity of the payload is *)
(* shown, or the hash is not one that the page wrote.                      *)
Misleading(link) == link.entity \in {Malformed, Inherited}

Astray ==
  page.booted /\ (page.mode = Nothing \/ page.selection = Inherited \/ ~ Decodes)

(* The hash names what the page shows, whoever changed it, unless the user *)
(* has just written another or the page was led astray, which nothing but  *)
(* a misleading link can do; and a page that is loaded, or loaded again,   *)
(* shows the view that the hash names.                                     *)
LinksNameAndRestoreViews ==
  [][/\ page'.booted /\ ~ edited' => hash' = View(page') \/ Astray'
     /\ Astray' => Astray \/ Misleading(hash) \/ Misleading(hash')
     /\ (~ page.booted /\ page'.booted /\ hash.mode \in Modes /\ hash.entity \in Selections)
          => View(page') = hash]_vars

(* Neither seat echoes the other: once the users rest, the messages end.   *)
MessagesEnded == <>[](Quiet /\ page.booted /\ frame.booted)
=============================================================================
