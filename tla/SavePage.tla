------------------------------ MODULE SavePage ------------------------------
(***************************************************************************)
(* The page's side of write-back (web/app.js, doSave): viewers edit graphs *)
(* and forms on the rows their page shows and save them with one base for  *)
(* the whole page, saveGen, which every answer to one of its saves moves   *)
(* on.  After an answer the panels run again, and an edit made on rows     *)
(* that have changed starts again from them (diagramEditValue, formValue). *)
(* The server is WriteBack; an answer may be lost, and the page then sends *)
(* the same save again.                                                    *)
(***************************************************************************)
EXTENDS WriteBack

CONSTANTS
  Page,      \* open tabs
  TabOf,     \* the page each click is made in
  Reading    \* the clicks whose graph or form shows rows of the saved tables

VARIABLES
  asked,     \* the requests whose answer a page waits for: their workers
  page,      \* per page: saveGen, and the saves its panels show
  made,      \* the edits that are there on the pages, each the one a click sends
  due,       \* the pages whose panels are to run again
  noted      \* the clicks whose button says "Changed meanwhile: ... Your
             \* edits are still here -- Save again to keep yours"

pageVars == <<asked, page, made, due, noted>>
allVars == <<vars, pageVars>>

ClicksOf(p) == {c \in Click : TabOf[c] = p}
Asks(p) == {t \in asked : TabOf[req[t].click] = p}
Shown == Log!RecordsOf(records)

PageInit ==
  /\ Init
  /\ page = [p \in Page |-> [saveGen |-> 0, shown |-> {}]]
  /\ asked = {} /\ made = {} /\ due = {} /\ noted = {}

\* saveSawGen.
SawGen(p, g) ==
  page' = [page EXCEPT ![p].saveGen = IF g > @ THEN g ELSE @]

\* The page is loaded: its configuration carries the log's generation.  What
\* the page there was before waits for, nobody hears.
Load(p) ==
  /\ running
  /\ page' = [page EXCEPT ![p] = [saveGen |-> Gen, shown |-> Shown]]
  /\ made' = made \ ClicksOf(p)
  /\ due' = due \ {p}
  /\ noted' = noted \ ClicksOf(p)
  /\ asked' = asked \ Asks(p)
  /\ UNCHANGED vars

\* Run, the timer, or another input changed.
RunAgain(p) ==
  /\ due' = due \cup {p}
  /\ UNCHANGED <<vars, asked, page, made, noted>>

\* The saves to the tables a click's save writes.
SavesTo(c, saves) ==
  {x \in saves : \E i \in 1..Len(c.body), j \in 1..Len(x.body) :
                    c.body[i].table = x.body[j].table}

\* The panels have run again, with newer rows and the same saveGen.  Where the
\* rows of an edited graph or form have changed, the edit is thrown away; a
\* save need not change them.
Rerun(p) ==
  /\ running
  /\ p \in due
  /\ due' = due \ {p}
  /\ page' = [page EXCEPT ![p].shown = Shown]
  /\ \E gone \in SUBSET {c \in made \cap ClicksOf(p) \cap Reading :
                           SavesTo(c, page[p].shown) # SavesTo(c, Shown)} :
       made' = made \ gone
  /\ UNCHANGED <<vars, asked, noted>>

\* The panels could not be fetched: they and the edits stay as they are.
RerunFails(p) ==
  /\ p \in due
  /\ due' = due \ {p}
  /\ UNCHANGED <<vars, asked, page, made, noted>>

\* The viewer edits a graph or a form.
Edit(c) ==
  /\ made' = made \cup {c}
  /\ UNCHANGED <<vars, asked, page, due, noted>>

Waits(c) == \E t \in asked : req[t].click = c

\* Save: what the button said before is gone, and it is disabled for now.
Send(t, c) ==
  /\ c \in made /\ ~Waits(c)
  /\ Arrive(t, c, page[TabOf[c]].saveGen)
  /\ asked' = asked \cup {t}
  /\ noted' = noted \ {c}
  /\ UNCHANGED <<page, made, due>>

\* The answer does not arrive; "your edits are still here", for a retry.
Lost(t) ==
  /\ t \in asked
  /\ asked' = asked \ {t}
  /\ UNCHANGED <<vars, page, made, due, noted>>

\* The base moves on, and the panels run again.
MovesOn(p, g) == SawGen(p, g) /\ due' = due \cup {p}

\* The answer to a retry of a save that is already there.
Replayed(c) ==
  /\ c \in made /\ ~Waits(c)
  /\ \E e \in recent : e.key = KeyOf(c) /\ MovesOn(TabOf[c], e.gen)
  /\ noted' = noted \ {c}
  /\ UNCHANGED <<vars, asked, made>>

\* 201, heard or not.
SavedAnswer(t) ==
  /\ Remember(t)
  /\ IF t \in asked THEN MovesOn(TabOf[req[t].click], Saved(t).seq)
     ELSE UNCHANGED <<page, due>>
  /\ asked' = asked \ {t}
  /\ UNCHANGED <<made, noted>>

\* 409 and who saved what, heard or not: the page says that the edit is still
\* there.  Or on to the append.
CheckAnswer(t) ==
  LET c == req[t].click
      refused == req'[t].pc = "idle"
  IN /\ CheckConflicts(t)
     /\ IF refused /\ t \in asked
        THEN MovesOn(TabOf[c], Gen) /\ noted' = noted \cup {c}
        ELSE UNCHANGED <<page, due, noted>>
     /\ asked' = IF refused THEN asked \ {t} ELSE asked
     /\ UNCHANGED made

\* The other refusals and failures change nothing on the page but the message.
Rest(t) ==
  /\ TryLock(t) \/ Panel(t) \/ Store(t) \/ StoreFails(t)
  /\ asked' = IF req'[t].pc = "idle" THEN asked \ {t} ELSE asked
  /\ UNCHANGED <<page, made, due, noted>>

PageNext ==
  \/ (Start \/ Offline) /\ UNCHANGED pageVars
  \/ (Stop \/ Crash) /\ asked' = {} /\ UNCHANGED <<page, made, due, noted>>
  \/ \E p \in Page : Load(p) \/ RunAgain(p) \/ Rerun(p) \/ RerunFails(p)
  \/ \E c \in Click : Edit(c) \/ Replayed(c)
  \/ \E t \in Thread :
       \/ \E c \in Click : Send(t, c)
       \/ Lost(t) \/ CheckAnswer(t) \/ SavedAnswer(t) \/ Rest(t)

PageSpec == PageInit /\ [][PageNext]_allVars

(* While a page says "Your edits are still here -- Save again to keep      *)
(* yours" (app.js:19006), the edit is there: "the page then shows theirs,  *)
(* keeps your edits, and Save again keeps yours" (docs/DOCS.md:2263).  No  *)
(* action of the model lets the viewer take the edit back herself.         *)
EditsKept == noted \subseteq made
=============================================================================
