------------------------------- MODULE Pasted -------------------------------
(***************************************************************************)
(* pasted.cpp: the daemon that keeps the clipboard of the X server of a    *)
(* container and the pasteboard of the content hub of the host the same.   *)
(*                                                                         *)
(* Its worker thread waits for X events, looks which window has the input  *)
(* focus, asks Unity whether that surface is focused, and posts            *)
(* focusChanged when one becomes so; its main thread handles those posts   *)
(* and the changes of the X clipboard.  The X server, Unity, the content   *)
(* hub and the people who copy are modelled from how pasted uses them:     *)
(* each change of the focus is an X event once the worker has asked for    *)
(* them, and the input focus of X stays where it is while a window of the  *)
(* host is focused (pasted.cpp tells this case from the other by asking).  *)
(*                                                                         *)
(* A clipping is a text, with or without a rendering in one of the bitmap  *)
(* formats that pasted leaves out.                                         *)
(***************************************************************************)
EXTENDS Naturals, Sequences

CONSTANTS
  Surfaces,     \* the windows of the container's X server
  Host,         \* the windows of the host
  Texts,        \* what can be copied
  Nothing,      \* mime data without formats
  Null,         \* no mime data
  MaxCopies,    \* bound: copies
  MaxMoves      \* bound: moves of the focus

ASSUME HostAssumption == Host \notin Surfaces /\ Null \notin Surfaces \cup {Host}
ASSUME MaxCopiesAssumption == MaxCopies \in Nat
ASSUME MaxMovesAssumption == MaxMoves \in Nat

Clippings == [text : Texts, bmp : BOOLEAN]

ASSUME NoDataAssumption == Nothing # Null /\ Nothing \notin Clippings /\ Null \notin Clippings

VARIABLES
  focused,      \* what Unity shows as focused
  xfocus,       \* the input focus of the X server; Null is no window
  clipboard,    \* the X clipboard
  owner,        \* who put it there: an application, or pasted itself
  pasteboard,   \* the latest paste of the content hub
  last,         \* lastMimeData_
  surface,      \* persistentSurfaceId_
  hasFocus,     \* hasFocus of the worker
  worker,       \* "start", "ask", "select", "wait", "event", "asking"
  window,       \* the window the worker asks about
  events,       \* X events for the worker
  changes,      \* changes of the X clipboard for the main thread
  posts,        \* focusChanged signals for the main thread
  copies, moves,
  newest,       \* history: what was copied last
  excused       \* history: what pasted cannot be blamed for

outside == <<focused, xfocus, copies, moves, newest, excused>>
thread == <<hasFocus, worker, window, events>>
vars == <<outside, clipboard, owner, pasteboard, last, surface, thread, changes, posts>>

Excuses == {"unseen", "crossed", "vanished", "moved", "mute", "refused"}

Init ==
  /\ focused \in Surfaces \cup {Host}
  /\ xfocus \in Surfaces \cup {Null}
  /\ focused \in Surfaces => xfocus = focused
  /\ clipboard \in Clippings \cup {Nothing}
  /\ owner = "app"
  /\ pasteboard \in Clippings \cup {Nothing}
  /\ last = Null
  /\ surface = Null
  /\ hasFocus = FALSE
  /\ worker = "start"
  /\ window = Null
  /\ events = 0 /\ changes = 0
  /\ posts = <<>>
  /\ copies = 0 /\ moves = 0
  /\ newest = Null
  /\ excused = {}

-----------------------------------------------------------------------------
(* The world outside. *)

Attentive == worker = "wait" /\ events = 0
Excuse(e, if) == excused' = IF if THEN excused \cup {e} ELSE excused

\* The focus goes to f.  Before the worker has selected the events it gets
\* none.  A move is out of order before the worker has noticed the last one,
\* or while a copy is still on its way.
Focus(f) ==
  /\ f # focused /\ moves < MaxMoves
  /\ focused' = f
  /\ xfocus' = IF f = Host THEN xfocus ELSE f
  /\ events' = IF worker \in {"wait", "event", "asking"} THEN events + 1 ELSE events
  /\ moves' = moves + 1
  /\ excused' = excused \cup (IF Attentive THEN {} ELSE {"unseen"})
                        \cup (IF Host \in {f, focused} THEN {} ELSE {"moved"})
                        \cup (IF changes = 0 THEN {} ELSE {"crossed"})
  /\ UNCHANGED <<clipboard, owner, pasteboard, last, surface, hasFocus, worker, window, changes,
                 posts, copies, newest>>

\* An application of the container copies.  It is out of order when it does
\* so in the background or before pasted has taken notice of the focus.
CopyInContainer(c) ==
  /\ copies < MaxCopies
  /\ clipboard' = c /\ owner' = "app"
  /\ changes' = changes + 1
  /\ newest' = c
  /\ Excuse("crossed", ~(focused \in Surfaces /\ hasFocus /\ Attentive /\ posts = <<>>))
  /\ copies' = copies + 1
  /\ UNCHANGED <<focused, xfocus, pasteboard, last, surface, thread, posts, moves>>

\* An application of the host copies.  It is out of order when a copy made
\* before is still on its way.
CopyOnHost(c) ==
  /\ focused = Host /\ copies < MaxCopies
  /\ pasteboard' = c
  /\ newest' = c
  /\ Excuse("crossed", changes > 0)
  /\ copies' = copies + 1
  /\ UNCHANGED <<focused, xfocus, clipboard, owner, last, surface, thread, changes, posts, moves>>

\* The application that owns the X clipboard goes away.
OwnerLeaves ==
  /\ owner = "app" /\ clipboard # Nothing
  /\ clipboard' = Nothing
  /\ changes' = changes + 1
  /\ excused' = excused \cup {"vanished"}
  /\ UNCHANGED <<focused, xfocus, owner, pasteboard, last, surface, thread, posts, copies, moves,
                 newest>>

-----------------------------------------------------------------------------
(* The worker thread: checkForAppFocus. *)

\* XGetInputFocus, at the start and after each event.
Look(from, to, otherwise) ==
  /\ worker = from
  /\ window' = xfocus
  /\ worker' = IF xfocus = Null THEN otherwise ELSE to
  /\ UNCHANGED <<outside, clipboard, owner, pasteboard, last, surface, hasFocus, events, changes,
                 posts>>

\* Slip: losing the focus goes unnoticed.
StillFocused == hasFocus \/ focused = window

\* What Unity answers about the window.
NowFocused == focused = window

\* isSurfaceFocused asks Unity, and only a focus gained is told.  The reply may
\* be an error, which reads as FALSE.
IsSurfaceFocused(from, to) ==
  /\ worker = from
  /\ \E isFocused \in {NowFocused, FALSE} :
       /\ posts' = IF isFocused /\ ~hasFocus THEN Append(posts, window) ELSE posts
       /\ hasFocus' = isFocused
       /\ Excuse("mute", isFocused # NowFocused)
  /\ worker' = to
  /\ UNCHANGED <<focused, xfocus, copies, moves, newest, clipboard, owner, pasteboard, last,
                 surface, window, events, changes>>

SelectInput ==
  /\ worker = "select"
  /\ worker' = "wait"
  /\ UNCHANGED <<outside, clipboard, owner, pasteboard, last, surface, hasFocus, window, events,
                 changes, posts>>

NextEvent ==
  /\ worker = "wait" /\ events > 0
  /\ events' = events - 1
  /\ worker' = "event"
  /\ UNCHANGED <<outside, clipboard, owner, pasteboard, last, surface, hasFocus, window, changes,
                 posts>>

CheckForAppFocus ==
  \/ Look("start", "ask", "select") \/ IsSurfaceFocused("ask", "select") \/ SelectInput
  \/ NextEvent \/ Look("event", "asking", "wait") \/ IsSurfaceFocused("asking", "wait")

-----------------------------------------------------------------------------
(* The main thread. *)

\* compareMimeData
Same(a, b) == Null \notin {a, b} /\ a = b

\* Slip: no mime data is copied as it is.
KeepsNull(c) ==
  CASE c \in {Null, Nothing} -> c
    [] OTHER -> [c EXCEPT !.bmp = FALSE]

\* copyMimeData into fresh mime data
Copied(c) ==
  CASE c \in {Null, Nothing} -> Nothing
    [] OTHER -> [c EXCEPT !.bmp = FALSE]

\* Slip: what pasted puts on the X clipboard is not remembered.
Forgetful(p) == last

\* updateLastMimeData
Remembered(p) == Copied(p)

\* handleXClipboard, with clipping c on the X clipboard and l remembered.
Sends(c, l) == c # Nothing /\ ~Same(c, l)

\* createPasteSync of what is remembered from now on; whether the content hub
\* took it is not looked at.
CreatePaste ==
  \/ pasteboard' = last' /\ UNCHANGED excused
  \/ UNCHANGED pasteboard /\ Excuse("refused", TRUE)

HandleXClipboard ==
  /\ changes > 0
  /\ changes' = changes - 1
  /\ IF Sends(clipboard, last)
     THEN last' = Copied(clipboard) /\ CreatePaste
     ELSE UNCHANGED <<last, pasteboard, excused>>
  /\ UNCHANGED <<focused, xfocus, copies, moves, newest, clipboard, owner, surface, thread, posts>>

\* Whether a paste is put on the X clipboard.
Takes(p) == ~Same(p, last)

\* What latestPaste can answer.
LatestPaste == IF pasteboard = Nothing THEN {Nothing, Null} ELSE {pasteboard}

\* Slip: appFocused keeps the surface it was told first.
FirstSurface(s) == IF surface = Null THEN s ELSE surface

\* setPersistentSurfaceId
PersistentSurface(s) == s

\* appFocused: handleContentHubPasteboard.  setMimeData calls handleXClipboard
\* before it returns.
AppFocused ==
  /\ posts # <<>>
  /\ posts' = Tail(posts)
  /\ surface' = PersistentSurface(Head(posts))
  /\ \E p \in LatestPaste :
       IF Takes(p)
       THEN /\ clipboard' = Copied(p) /\ owner' = "pasted"
            /\ IF Sends(clipboard', Remembered(p))
               THEN last' = Copied(clipboard') /\ CreatePaste
               ELSE last' = Remembered(p) /\ UNCHANGED <<pasteboard, excused>>
       ELSE UNCHANGED <<clipboard, owner, last, pasteboard, excused>>
  /\ UNCHANGED <<focused, xfocus, copies, moves, newest, thread, changes>>

-----------------------------------------------------------------------------

Calm == Attentive /\ changes = 0 /\ posts = <<>>

Over == Calm /\ moves = MaxMoves /\ copies = MaxCopies /\ UNCHANGED vars

Next ==
  \/ \E f \in Surfaces \cup {Host} : Focus(f)
  \/ \E c \in Clippings : CopyInContainer(c) \/ CopyOnHost(c)
  \/ OwnerLeaves
  \/ CheckForAppFocus
  \/ HandleXClipboard
  \/ AppFocused
  \/ Over

Spec == Init /\ [][Next]_vars

-----------------------------------------------------------------------------
(* Properties. *)

TypeOK ==
  /\ focused \in Surfaces \cup {Host}
  /\ xfocus \in Surfaces \cup {Null}
  /\ clipboard \in Clippings \cup {Nothing}
  /\ owner \in {"app", "pasted"}
  /\ pasteboard \in Clippings \cup {Nothing}
  /\ last \in Clippings \cup {Nothing, Null}
  /\ surface \in Surfaces \cup {Null}
  /\ hasFocus \in BOOLEAN
  /\ worker \in {"start", "ask", "select", "wait", "event", "asking"}
  /\ window \in Surfaces \cup {Null}
  /\ events \in Nat
  /\ changes \in Nat
  /\ posts \in Seq(Surfaces)
  /\ copies \in 0..MaxCopies /\ moves \in 0..MaxMoves
  /\ newest \in Clippings \cup {Null}
  /\ excused \in SUBSET Excuses

\* What pasted took from the content hub it never sends back there: the
\* pasteboard is changed by the host, or by what an application of the
\* container copied.
NoEcho == [][pasteboard' # pasteboard => copies' > copies \/ owner' = "app"]_vars

\* Once everything is handled and a window of the container is focused, the
\* two clipboards hold the same, unless a move of the focus went by before
\* the worker had looked, Unity did not answer for the focused window, the
\* content hub did not take a paste (it is remembered as sent, and never sent
\* again), or the clipboard's owner went away: then what was remembered stands
\* for a clipboard that is empty.
InSync ==
  Calm /\ focused \in Surfaces /\ excused \subseteq {"moved", "crossed"} =>
    Copied(clipboard) = Copied(pasteboard)

\* Then, too, it is what was copied last that they hold, if every copy was
\* made by the focused side after pasted had noticed the focus, and was
\* handled before the focus moved on.
NewestWins ==
  Calm /\ focused \in Surfaces /\ excused \subseteq {"moved"} /\ newest # Null =>
    Copied(clipboard) = Copied(newest)

\* Whoever pastes in a window of the container gets what was copied last.
ClipboardsAgree == InSync /\ NewestWins

\* Pastes are sent in the name of the focused surface, unless the focus went
\* from one window of the container straight to another one, or Unity did not
\* answer for it.
InItsName ==
  Calm /\ focused \in Surfaces /\ {"unseen", "moved", "mute"} \cap excused = {} =>
    surface = focused
=============================================================================
