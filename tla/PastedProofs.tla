---------------------------- MODULE PastedProofs ----------------------------
(***************************************************************************)
(* Pasted for any windows and clippings: types, and that nothing pasted    *)
(* puts on the X clipboard comes back as a paste.                          *)
(***************************************************************************)
EXTENDS Pasted, TLAPS

\* What copyMimeData makes is mime data, and what it leaves out is gone.
LEMMA CopiedType ==
  ASSUME NEW c \in Clippings \cup {Nothing, Null}
  PROVE  Copied(c) \in Clippings \cup {Nothing}
  BY DEF Copied, Clippings

\* The variables that the argument is about have their types.
ClipTypes ==
  /\ clipboard \in Clippings \cup {Nothing}
  /\ pasteboard \in Clippings \cup {Nothing}
  /\ last \in Clippings \cup {Nothing, Null}
  /\ owner \in {"app", "pasted"}

\* What pasted itself put on the X clipboard, it remembers.
OwnIsRemembered == owner = "pasted" => clipboard = last

EchoInv == ClipTypes /\ OwnIsRemembered

LEMMA InitEcho == Init => EchoInv
  BY DEF Init, EchoInv, ClipTypes, OwnIsRemembered

LEMMA FocusEcho == ASSUME EchoInv, NEW f \in Surfaces \cup {Host}, Focus(f)
                   PROVE  EchoInv'
  BY DEF EchoInv, ClipTypes, OwnIsRemembered, Focus

LEMMA ContainerEcho == ASSUME EchoInv, NEW c \in Clippings, CopyInContainer(c)
                       PROVE  EchoInv'
  BY DEF EchoInv, ClipTypes, OwnIsRemembered, CopyInContainer

LEMMA HostEcho == ASSUME EchoInv, NEW c \in Clippings, CopyOnHost(c)
                  PROVE  EchoInv'
  BY DEF EchoInv, ClipTypes, OwnIsRemembered, CopyOnHost

LEMMA LeavesEcho == ASSUME EchoInv, OwnerLeaves PROVE EchoInv'
  BY DEF EchoInv, ClipTypes, OwnIsRemembered, OwnerLeaves

\* The worker touches none of it.
LEMMA WorkerKeeps ==
  CheckForAppFocus => UNCHANGED <<clipboard, owner, pasteboard, last>>
  BY DEF CheckForAppFocus, Look, IsSurfaceFocused, SelectInput, NextEvent

LEMMA WorkerEcho == ASSUME EchoInv, CheckForAppFocus PROVE EchoInv'
  BY WorkerKeeps DEF EchoInv, ClipTypes, OwnIsRemembered

\* What is remembered is not sent, so the change that pasted caused is
\* taken for what it is.
LEMMA RememberedNotSent ==
  ASSUME NEW c \in Clippings \cup {Nothing}
  PROVE  ~Sends(c, c)
  BY NoDataAssumption DEF Sends, Same

LEMMA XClipboardEcho == ASSUME EchoInv, HandleXClipboard PROVE EchoInv'
<1>1. CASE Sends(clipboard, last)
  <2>1. owner # "pasted"
    BY <1>1, RememberedNotSent DEF EchoInv, ClipTypes, OwnIsRemembered
  <2>2. /\ last' = Copied(clipboard) /\ pasteboard' \in {last', pasteboard}
        /\ UNCHANGED <<clipboard, owner>>
    BY <1>1 DEF HandleXClipboard, CreatePaste
  <2> QED
    BY <2>1, <2>2, CopiedType DEF EchoInv, ClipTypes, OwnIsRemembered
<1>2. CASE ~Sends(clipboard, last)
  BY <1>2 DEF HandleXClipboard, EchoInv, ClipTypes, OwnIsRemembered
<1> QED
  BY <1>1, <1>2

\* A paste taken over is remembered as it is put on the X clipboard, so the
\* change it makes there is not sent, and the pasteboard stays.
LEMMA FocusedKeepsPaste ==
  ASSUME EchoInv, AppFocused
  PROVE  EchoInv' /\ UNCHANGED <<pasteboard, excused>>
<1>1. PICK p \in LatestPaste :
        IF Takes(p)
        THEN /\ clipboard' = Copied(p) /\ owner' = "pasted"
             /\ IF Sends(clipboard', Remembered(p))
                THEN last' = Copied(clipboard') /\ CreatePaste
                ELSE last' = Remembered(p) /\ UNCHANGED <<pasteboard, excused>>
        ELSE UNCHANGED <<clipboard, owner, last, pasteboard, excused>>
  BY DEF AppFocused
<1>2. p \in Clippings \cup {Nothing, Null}
  BY DEF LatestPaste, EchoInv, ClipTypes
<1>3. CASE Takes(p)
  <2>1. clipboard' = Copied(p) /\ owner' = "pasted" /\ Copied(p) \in Clippings \cup {Nothing}
    BY <1>1, <1>2, <1>3, CopiedType
  <2>2. ~Sends(clipboard', Remembered(p))
    BY <2>1, RememberedNotSent DEF Remembered
  <2>3. last' = Copied(p) /\ UNCHANGED <<pasteboard, excused>>
    BY <1>1, <1>3, <2>2 DEF Remembered
  <2> QED
    BY <2>1, <2>3 DEF EchoInv, ClipTypes, OwnIsRemembered
<1>4. CASE ~Takes(p)
  BY <1>1, <1>4 DEF EchoInv, ClipTypes, OwnIsRemembered
<1> QED
  BY <1>3, <1>4

LEMMA NextEcho == EchoInv /\ [Next]_vars => EchoInv'
<1> SUFFICES ASSUME EchoInv, [Next]_vars PROVE EchoInv'
  OBVIOUS
<1>1. CASE \E f \in Surfaces \cup {Host} : Focus(f)
  BY <1>1, FocusEcho
<1>2. CASE \E c \in Clippings : CopyInContainer(c) \/ CopyOnHost(c)
  BY <1>2, ContainerEcho, HostEcho
<1>3. CASE OwnerLeaves
  BY <1>3, LeavesEcho
<1>4. CASE CheckForAppFocus
  BY <1>4, WorkerEcho
<1>5. CASE HandleXClipboard
  BY <1>5, XClipboardEcho
<1>6. CASE AppFocused
  BY <1>6, FocusedKeepsPaste
<1>7. CASE UNCHANGED vars
  BY <1>7 DEF vars, EchoInv, ClipTypes, OwnIsRemembered
<1>8. CASE Over
  BY <1>7, <1>8 DEF Over
<1> QED
  BY <1>1, <1>2, <1>3, <1>4, <1>5, <1>6, <1>7, <1>8 DEF Next

\* A step that changes the pasteboard is a copy, or finds on the X clipboard
\* what an application put there.
LEMMA StepsDoNotEcho ==
  ASSUME EchoInv, [Next]_vars, copies \in Nat, pasteboard' # pasteboard
  PROVE  copies' > copies \/ owner' = "app"
<1>1. CASE \E f \in Surfaces \cup {Host} : Focus(f)
  BY <1>1 DEF Focus
<1>2. CASE \E c \in Clippings : CopyInContainer(c) \/ CopyOnHost(c)
  BY <1>2 DEF CopyInContainer, CopyOnHost
<1>3. CASE OwnerLeaves
  BY <1>3 DEF OwnerLeaves
<1>4. CASE CheckForAppFocus
  BY <1>4, WorkerKeeps
<1>5. CASE HandleXClipboard
  <2>1. Sends(clipboard, last) /\ UNCHANGED owner
    BY <1>5 DEF HandleXClipboard
  <2>2. owner # "pasted"
    BY <2>1, RememberedNotSent DEF EchoInv, ClipTypes, OwnIsRemembered
  <2> QED
    BY <2>1, <2>2 DEF EchoInv, ClipTypes
<1>6. CASE AppFocused
  BY <1>6, FocusedKeepsPaste
<1>7. CASE UNCHANGED vars
  BY <1>7 DEF vars
<1>8. CASE Over
  BY <1>7, <1>8 DEF Over
<1> QED
  BY <1>1, <1>2, <1>3, <1>4, <1>5, <1>6, <1>7, <1>8 DEF Next

-----------------------------------------------------------------------------
(* Types. *)

LEMMA InitType == Init => TypeOK
<1> SUFFICES ASSUME Init PROVE TypeOK
  OBVIOUS
<1>1. focused \in Surfaces \cup {Host} /\ xfocus \in Surfaces \cup {Null}
  BY DEF Init
<1>2. /\ clipboard \in Clippings \cup {Nothing} /\ pasteboard \in Clippings \cup {Nothing}
      /\ last \in Clippings \cup {Nothing, Null} /\ newest \in Clippings \cup {Null}
  BY DEF Init
<1>3. surface \in Surfaces \cup {Null} /\ window \in Surfaces \cup {Null}
  BY DEF Init
<1>4. posts \in Seq(Surfaces) /\ excused \in SUBSET Excuses
  BY DEF Init
<1>5. events \in Nat /\ changes \in Nat /\ copies \in 0..MaxCopies /\ moves \in 0..MaxMoves
  BY MaxCopiesAssumption, MaxMovesAssumption DEF Init
<1>6. /\ owner \in {"app", "pasted"} /\ hasFocus \in BOOLEAN
      /\ worker \in {"start", "ask", "select", "wait", "event", "asking"}
  BY DEF Init
<1> QED
  BY <1>1, <1>2, <1>3, <1>4, <1>5, <1>6 DEF TypeOK

LEMMA CopyType ==
  ASSUME TypeOK, NEW c \in Clippings, CopyInContainer(c) \/ CopyOnHost(c)
  PROVE  TypeOK'
<1>1. CASE CopyInContainer(c)
  BY <1>1, MaxCopiesAssumption DEF TypeOK, CopyInContainer, Excuses, Excuse, thread
<1>2. CASE CopyOnHost(c)
  BY <1>2, MaxCopiesAssumption DEF TypeOK, CopyOnHost, Excuses, Excuse, thread
<1> QED
  BY <1>1, <1>2

\* Unity answers, or its error is taken for a no.
LEMMA Answered ==
  ASSUME NEW from, NEW to, IsSurfaceFocused(from, to)
  PROVE  /\ excused \subseteq excused' /\ excused' \subseteq excused \cup {"mute"}
         /\ \/ /\ hasFocus' = NowFocused /\ UNCHANGED excused
               /\ posts' = IF NowFocused /\ ~hasFocus THEN Append(posts, window) ELSE posts
            \/ hasFocus' = FALSE /\ UNCHANGED posts /\ "mute" \in excused'
<1>1. PICK isFocused \in {NowFocused, FALSE} :
        /\ posts' = IF isFocused /\ ~hasFocus THEN Append(posts, window) ELSE posts
        /\ hasFocus' = isFocused
        /\ Excuse("mute", isFocused # NowFocused)
  BY DEF IsSurfaceFocused
<1>2. CASE isFocused = NowFocused
  BY <1>1, <1>2 DEF Excuse
<1>3. CASE isFocused # NowFocused
  <2>1. isFocused = FALSE /\ excused' = excused \cup {"mute"}
    BY <1>1, <1>3 DEF Excuse
  <2> QED
    BY <1>1, <2>1
<1> QED
  BY <1>2, <1>3

LEMMA WorkerType == ASSUME TypeOK, CheckForAppFocus PROVE TypeOK'
<1> USE DEF TypeOK, outside
<1>1. CASE Look("start", "ask", "select") \/ Look("event", "asking", "wait")
  BY <1>1 DEF Look
<1>2. CASE IsSurfaceFocused("ask", "select") \/ IsSurfaceFocused("asking", "wait")
  <2>1. /\ UNCHANGED <<focused, xfocus, copies, moves, newest, clipboard, owner, pasteboard, last,
                       surface, window, events, changes>>
        /\ worker' \in {"select", "wait"}
    BY <1>2 DEF IsSurfaceFocused
  <2>2. hasFocus' \in BOOLEAN /\ excused' \in SUBSET Excuses
    BY <1>2, Answered DEF NowFocused, Excuses
  <2>3. NowFocused => window \in Surfaces
    BY HostAssumption DEF NowFocused
  <2>4. posts' \in Seq(Surfaces)
    <3>1. posts' = posts \/ (NowFocused /\ posts' = Append(posts, window))
      BY <1>2, Answered
    <3> QED
      BY <2>3, <3>1
  <2> QED
    BY <2>1, <2>2, <2>4
<1>3. CASE SelectInput
  BY <1>3 DEF SelectInput
<1>4. CASE NextEvent
  BY <1>4 DEF NextEvent
<1> QED
  BY <1>1, <1>2, <1>3, <1>4 DEF CheckForAppFocus

LEMMA MainType == ASSUME TypeOK, HandleXClipboard \/ AppFocused PROVE TypeOK'
<1>1. CASE HandleXClipboard
  <2>1. /\ UNCHANGED <<focused, xfocus, copies, moves, newest, clipboard, owner, surface, thread,
                       posts>>
        /\ changes > 0 /\ changes' = changes - 1
        /\ last' \in {Copied(clipboard), last} /\ pasteboard' \in {Copied(clipboard), pasteboard}
        /\ excused' \in {excused, excused \cup {"refused"}}
    BY <1>1 DEF HandleXClipboard, CreatePaste, Excuse
  <2>2. Copied(clipboard) \in Clippings \cup {Nothing}
    BY CopiedType DEF TypeOK
  <2>3. last' \in Clippings \cup {Nothing, Null} /\ pasteboard' \in Clippings \cup {Nothing}
    BY <2>1, <2>2 DEF TypeOK
  <2>4. changes' \in Nat
    BY <2>1 DEF TypeOK
  <2> QED
    BY <2>1, <2>3, <2>4 DEF TypeOK, thread, Excuses
<1>2. CASE AppFocused
  <2>1. /\ UNCHANGED <<focused, xfocus, copies, moves, newest, thread, changes>>
        /\ posts # <<>> /\ posts' = Tail(posts) /\ surface' = Head(posts)
    BY <1>2 DEF AppFocused, PersistentSurface
  <2>2. PICK p \in LatestPaste :
          IF Takes(p)
          THEN /\ clipboard' = Copied(p) /\ owner' = "pasted"
               /\ IF Sends(clipboard', Remembered(p))
                  THEN last' = Copied(clipboard') /\ CreatePaste
                  ELSE last' = Remembered(p) /\ UNCHANGED <<pasteboard, excused>>
          ELSE UNCHANGED <<clipboard, owner, last, pasteboard, excused>>
    BY <1>2 DEF AppFocused
  <2>3. p \in Clippings \cup {Nothing, Null}
    BY DEF LatestPaste, TypeOK
  <2>4. Copied(p) \in Clippings \cup {Nothing} /\ Copied(Copied(p)) \in Clippings \cup {Nothing}
    BY <2>3, CopiedType
  <2>5. /\ clipboard' \in Clippings \cup {Nothing} /\ owner' \in {"app", "pasted"}
        /\ last' \in Clippings \cup {Nothing, Null} /\ pasteboard' \in Clippings \cup {Nothing}
        /\ excused' \in SUBSET Excuses
    BY <2>2, <2>4 DEF TypeOK, Remembered, CreatePaste, Excuse, Excuses
  <2>6. posts' \in Seq(Surfaces) /\ surface' \in Surfaces
    BY <2>1 DEF TypeOK
  <2> QED
    BY <2>1, <2>5, <2>6 DEF TypeOK, thread
<1> QED
  BY <1>1, <1>2

LEMMA NextType == TypeOK /\ [Next]_vars => TypeOK'
<1> SUFFICES ASSUME TypeOK, [Next]_vars PROVE TypeOK'
  OBVIOUS
<1>1. CASE \E f \in Surfaces \cup {Host} : Focus(f)
  BY <1>1, MaxMovesAssumption DEF TypeOK, Focus, Excuses, Attentive
<1>2. CASE \E c \in Clippings : CopyInContainer(c) \/ CopyOnHost(c)
  BY <1>2, CopyType
<1>3. CASE OwnerLeaves
  BY <1>3 DEF TypeOK, OwnerLeaves, Excuses, thread
<1>4. CASE CheckForAppFocus
  BY <1>4, WorkerType
<1>5. CASE HandleXClipboard \/ AppFocused
  BY <1>5, MainType
<1>6. CASE UNCHANGED vars
  BY <1>6 DEF vars, TypeOK, outside, thread
<1>7. CASE Over
  BY <1>6, <1>7 DEF Over
<1> QED
  BY <1>1, <1>2, <1>3, <1>4, <1>5, <1>6, <1>7 DEF Next

\* Every variable of pasted keeps its type.
THEOREM PastedTypes == Spec => []TypeOK
  BY InitType, NextType, PTL DEF Spec

\* Whatever is copied and focused in whatever order, what pasted took from
\* the content hub never comes back there as a paste (handleXClipboard finds
\* on the X clipboard what updateXMimeData remembered).
THEOREM EchoFree == Spec => NoEcho
<1>1. EchoInv /\ TypeOK /\ [Next]_vars =>
        [pasteboard' # pasteboard => copies' > copies \/ owner' = "app"]_vars
  <2> SUFFICES ASSUME EchoInv, TypeOK, [Next]_vars, pasteboard' # pasteboard
               PROVE  copies' > copies \/ owner' = "app"
    OBVIOUS
  <2>1. copies \in Nat
    BY MaxCopiesAssumption DEF TypeOK
  <2> QED
    BY <2>1, StepsDoNotEcho
<1>2. Spec => []EchoInv
  BY InitEcho, NextEcho, PTL DEF Spec
<1> QED
  BY <1>1, <1>2, PastedTypes, PTL DEF Spec, NoEcho

-----------------------------------------------------------------------------
(* What the worker knows of the focus, when no move goes by unseen: the     *)
(* focus has moved once at most since the worker looked.                    *)

\* The worker has looked since the focus moved last.
Noticed == worker = "select" \/ Attentive

\* While a window of the container is focused it has the input focus of X,
\* and the worker asks about that window.
LooksRight ==
  /\ focused \in Surfaces => xfocus = focused
  /\ xfocus = Null => ~hasFocus
  /\ worker \in {"ask", "asking"} => window = xfocus
  /\ worker # "wait" => events = 0
  /\ events <= 1

\* What the worker takes for true is true once it has noticed.
KnowsTheFocus == Noticed => (hasFocus <=> focused \in Surfaces)

\* What keeps the worker from knowing where the focus is.
Blind == {"unseen", "mute"}

WatchInv == Blind \cap excused = {} => LooksRight /\ KnowsTheFocus

\* The surface that the main thread ends up with.
Told == IF posts = <<>> THEN surface ELSE posts[Len(posts)]

\* From one window of the container the focus goes to the host first, which
\* the worker sees: so it will tell of the next window.
WillTell == ~Noticed /\ focused \in Surfaces => ~hasFocus

NameInv ==
  ({"moved"} \cup Blind) \cap excused = {} =>
    WillTell /\ (focused \in Surfaces /\ hasFocus => Told = focused)

-----------------------------------------------------------------------------
(* What the two clipboards hold. *)

\* What is remembered was copied, and is what the X clipboard holds once its
\* changes are handled, unless its owner went away.
RemembersClipboard ==
  "vanished" \notin excused =>
    /\ owner = "app" /\ clipboard = Nothing => last = Null
    /\ last # Null /\ (changes = 0 \/ owner = "pasted") => Copied(clipboard) = last

\* While a window of the container has the focus and every post is handled,
\* it is what the pasteboard holds, unless a paste was refused.
RemembersPasteboard ==
  /\ last # Null => Copied(last) = last
  /\ ({"refused"} \cup Blind) \cap excused = {} /\ focused \in Surfaces /\ hasFocus
       /\ posts = <<>> => last = Copied(pasteboard)

\* What was copied last is on its way to the pasteboard, or there.
HoldsNewest ==
  excused \subseteq {"moved"} /\ newest # Null =>
    IF changes > 0
      THEN focused \in Surfaces /\ hasFocus /\ posts = <<>> /\ Attentive /\ clipboard = newest
      ELSE Copied(pasteboard) = Copied(newest)

AgreeInv == WatchInv /\ RemembersClipboard /\ RemembersPasteboard /\ HoldsNewest

-----------------------------------------------------------------------------
(* What the worker knows, step by step. *)

LEMMA InitWatch == Init => WatchInv
  BY HostAssumption DEF Init, WatchInv, LooksRight, KnowsTheFocus, Noticed, Attentive

LEMMA FocusWatch ==
  ASSUME TypeOK, WatchInv, NEW f \in Surfaces \cup {Host}, Focus(f)
  PROVE  WatchInv'
<1> SUFFICES ASSUME Blind \cap excused' = {} PROVE LooksRight' /\ KnowsTheFocus'
  BY DEF WatchInv
<1>1. Attentive /\ Blind \cap excused = {}
  BY DEF Focus, Blind
<1>2. worker = "wait" /\ events = 0 /\ events' = 1 /\ UNCHANGED <<worker, hasFocus>>
  BY <1>1 DEF Focus, Attentive
<1>3. LooksRight
  BY <1>1 DEF WatchInv
<1>4. LooksRight'
  BY <1>2, <1>3, HostAssumption DEF LooksRight, Focus, TypeOK
<1>5. ~Noticed'
  BY <1>2 DEF Noticed, Attentive
<1> QED
  BY <1>4, <1>5 DEF KnowsTheFocus

LEMMA LookWatch ==
  ASSUME TypeOK, WatchInv, Look("start", "ask", "select") \/ Look("event", "asking", "wait")
  PROVE  WatchInv'
<1> SUFFICES ASSUME Blind \cap excused = {} PROVE LooksRight' /\ KnowsTheFocus'
  BY DEF WatchInv, Look, outside
<1>1. LooksRight
  BY DEF WatchInv
<1>2. /\ worker \in {"start", "event"} /\ window' = xfocus
      /\ UNCHANGED <<focused, xfocus, hasFocus, events>>
      /\ xfocus = Null => worker' \in {"select", "wait"}
      /\ xfocus # Null => worker' \in {"ask", "asking"}
  BY DEF Look, outside
<1>3. events = 0
  BY <1>1, <1>2 DEF LooksRight
<1>4. LooksRight'
  BY <1>1, <1>2, <1>3 DEF LooksRight
<1>5. xfocus = Null => focused \notin Surfaces /\ ~hasFocus
  BY <1>1, HostAssumption DEF LooksRight
<1> QED
  BY <1>2, <1>4, <1>5 DEF KnowsTheFocus, Noticed, Attentive

\* Unity is asked about the window that has the input focus of X.
LEMMA AskingSees ==
  ASSUME TypeOK, LooksRight, worker \in {"ask", "asking"}
  PROVE  NowFocused <=> focused \in Surfaces
  BY HostAssumption DEF LooksRight, TypeOK, NowFocused

LEMMA AskWatch ==
  ASSUME TypeOK, WatchInv, IsSurfaceFocused("ask", "select") \/ IsSurfaceFocused("asking", "wait")
  PROVE  WatchInv'
<1> SUFFICES ASSUME Blind \cap excused' = {} PROVE LooksRight' /\ KnowsTheFocus'
  BY DEF WatchInv
<1>1. LooksRight
  BY Answered DEF WatchInv
<1>2. /\ worker \in {"ask", "asking"} /\ worker' \in {"select", "wait"}
      /\ hasFocus' = NowFocused /\ UNCHANGED <<focused, xfocus, events>>
  <2>1. hasFocus' = NowFocused
    BY Answered DEF Blind
  <2> QED
    BY <2>1 DEF IsSurfaceFocused
<1>3. NowFocused <=> focused \in Surfaces
  BY <1>1, <1>2, AskingSees
<1>4. LooksRight'
  BY <1>1, <1>2, <1>3, HostAssumption DEF LooksRight
<1> QED
  BY <1>2, <1>3, <1>4 DEF KnowsTheFocus

LEMMA SelectWatch ==
  ASSUME TypeOK, WatchInv, SelectInput \/ NextEvent
  PROVE  WatchInv'
<1> SUFFICES ASSUME Blind \cap excused = {} PROVE LooksRight' /\ KnowsTheFocus'
  BY DEF WatchInv, SelectInput, NextEvent, outside
<1>1. LooksRight /\ KnowsTheFocus
  BY DEF WatchInv
<1>2. CASE SelectInput
  BY <1>1, <1>2 DEF SelectInput, LooksRight, KnowsTheFocus, Noticed, Attentive, outside
<1>3. CASE NextEvent
  <2>1. /\ events = 1 /\ events' = 0 /\ worker' = "event"
        /\ UNCHANGED <<focused, xfocus, hasFocus>>
    BY <1>1, <1>3 DEF NextEvent, LooksRight, TypeOK, outside
  <2> QED
    BY <1>1, <2>1 DEF LooksRight, KnowsTheFocus, Noticed, Attentive
<1> QED
  BY <1>2, <1>3

\* The worker and the focus are left alone by everything else.
LEMMA IdleWatch ==
  ASSUME WatchInv, UNCHANGED <<focused, xfocus, thread>>, excused \subseteq excused'
  PROVE  WatchInv'
  BY DEF WatchInv, LooksRight, KnowsTheFocus, Noticed, Attentive, thread

LEMMA CopiesAndPostsWatch ==
  ASSUME TypeOK,
         \/ \E c \in Clippings : CopyInContainer(c) \/ CopyOnHost(c)
         \/ OwnerLeaves \/ HandleXClipboard \/ AppFocused \/ UNCHANGED vars
  PROVE  UNCHANGED <<focused, xfocus, thread>> /\ excused \subseteq excused'
<1>1. CASE \E c \in Clippings : CopyInContainer(c) \/ CopyOnHost(c)
  BY <1>1 DEF CopyInContainer, CopyOnHost, Excuse
<1>2. CASE OwnerLeaves \/ HandleXClipboard \/ AppFocused \/ UNCHANGED vars
  BY <1>2 DEF OwnerLeaves, HandleXClipboard, AppFocused, CreatePaste, Excuse, vars, outside
<1> QED
  BY <1>1, <1>2

LEMMA NextWatch == TypeOK /\ WatchInv /\ [Next]_vars => WatchInv'
<1> SUFFICES ASSUME TypeOK, WatchInv, [Next]_vars PROVE WatchInv'
  OBVIOUS
<1>1. CASE \E f \in Surfaces \cup {Host} : Focus(f)
  BY <1>1, FocusWatch
<1>2. CASE CheckForAppFocus
  BY <1>2, LookWatch, AskWatch, SelectWatch DEF CheckForAppFocus
<1>3. CASE \/ \E c \in Clippings : CopyInContainer(c) \/ CopyOnHost(c)
           \/ OwnerLeaves \/ HandleXClipboard \/ AppFocused \/ UNCHANGED vars
  BY <1>3, IdleWatch, CopiesAndPostsWatch
<1> QED
  BY <1>1, <1>2, <1>3 DEF Next, Over

-----------------------------------------------------------------------------
(* Whose name the main thread ends up with. *)

LEMMA InitName == Init => NameInv
  BY DEF Init, NameInv, WillTell, Noticed, Attentive

LEMMA FocusName ==
  ASSUME TypeOK, WatchInv, NameInv, NEW f \in Surfaces \cup {Host}, Focus(f)
  PROVE  NameInv'
<1> SUFFICES ASSUME ({"moved"} \cup Blind) \cap excused' = {}
             PROVE  WillTell' /\ (focused' \in Surfaces /\ hasFocus' => Told' = focused')
  BY DEF NameInv
<1>1. /\ Attentive /\ Host \in {f, focused} /\ f # focused
      /\ Blind \cap excused = {} /\ focused' = f /\ hasFocus' = hasFocus
  BY DEF Focus, Blind
<1>2. hasFocus <=> focused \in Surfaces
  BY <1>1 DEF WatchInv, KnowsTheFocus, Noticed
<1>3. f \in Surfaces => ~hasFocus
  BY <1>1, <1>2, HostAssumption
<1> QED
  BY <1>1, <1>3 DEF WillTell

\* The worker only adds to what is excused.
LEMMA WorkerExcuses ==
  ASSUME CheckForAppFocus
  PROVE  excused \subseteq excused' /\ excused' \subseteq excused \cup {"mute"}
<1>1. CASE IsSurfaceFocused("ask", "select") \/ IsSurfaceFocused("asking", "wait")
  BY <1>1, Answered
<1>2. CASE ~(IsSurfaceFocused("ask", "select") \/ IsSurfaceFocused("asking", "wait"))
  BY <1>2 DEF CheckForAppFocus, Look, SelectInput, NextEvent, outside
<1> QED
  BY <1>1, <1>2

LEMMA WorkerName ==
  ASSUME TypeOK, WatchInv, NameInv, CheckForAppFocus
  PROVE  NameInv'
<1> SUFFICES ASSUME ({"moved"} \cup Blind) \cap excused' = {}
             PROVE  WillTell' /\ (focused' \in Surfaces /\ hasFocus' => Told' = focused')
  BY DEF NameInv
<1>0. ({"moved"} \cup Blind) \cap excused = {}
  BY WorkerExcuses
<1>1. LooksRight /\ KnowsTheFocus
  BY <1>0 DEF WatchInv
<1>2. WillTell /\ (focused \in Surfaces /\ hasFocus => Told = focused)
  BY <1>0 DEF NameInv
<1>3. UNCHANGED <<focused, surface>>
  BY DEF CheckForAppFocus, Look, IsSurfaceFocused, SelectInput, NextEvent, outside
<1>4. CASE Look("start", "ask", "select") \/ Look("event", "asking", "wait")
  <2>1. ~Noticed /\ UNCHANGED <<hasFocus, posts>>
    BY <1>4 DEF Look, Noticed, Attentive
  <2>2. focused' \in Surfaces => ~hasFocus'
    BY <1>2, <1>3, <2>1 DEF WillTell
  <2> QED
    BY <2>2 DEF WillTell
<1>5. CASE IsSurfaceFocused("ask", "select") \/ IsSurfaceFocused("asking", "wait")
  <2>1. /\ worker \in {"ask", "asking"} /\ worker' \in {"select", "wait"}
        /\ hasFocus' = NowFocused /\ events' = events
        /\ posts' = IF NowFocused /\ ~hasFocus THEN Append(posts, window) ELSE posts
    <3>1. /\ hasFocus' = NowFocused
          /\ posts' = IF NowFocused /\ ~hasFocus THEN Append(posts, window) ELSE posts
      BY <1>5, Answered DEF Blind
    <3> QED
      BY <1>5, <3>1 DEF IsSurfaceFocused
  <2>2. Noticed'
    BY <1>1, <2>1 DEF Noticed, Attentive, LooksRight
  <2>3. ASSUME focused' \in Surfaces, hasFocus' PROVE Told' = focused'
    <3>1. ~hasFocus
      BY <1>2, <1>3, <2>1, <2>3 DEF WillTell, Noticed, Attentive
    <3>2. posts' = Append(posts, focused)
      BY <2>1, <2>3, <3>1 DEF NowFocused
    <3>3. posts' # <<>> /\ posts'[Len(posts')] = focused
      BY <3>2 DEF TypeOK
    <3> QED
      BY <1>3, <3>3 DEF Told
  <2> QED
    BY <2>2, <2>3 DEF WillTell
<1>6. CASE SelectInput
  <2>1. Noticed /\ Noticed' /\ UNCHANGED <<hasFocus, posts>>
    BY <1>1, <1>6 DEF SelectInput, Noticed, Attentive, LooksRight
  <2> QED
    BY <1>2, <1>3, <2>1 DEF WillTell, Told
<1>7. CASE NextEvent
  <2>1. ~Noticed /\ UNCHANGED <<hasFocus, posts>>
    BY <1>7 DEF NextEvent, Noticed, Attentive, TypeOK
  <2>2. focused' \in Surfaces => ~hasFocus'
    BY <1>2, <1>3, <2>1 DEF WillTell
  <2> QED
    BY <2>2 DEF WillTell
<1> QED
  BY <1>4, <1>5, <1>6, <1>7 DEF CheckForAppFocus

\* The main thread forgets no name but the one it takes.
LEMMA PostKeepsTold ==
  ASSUME TypeOK, AppFocused
  PROVE  Told' = Told
<1>1. posts # <<>> /\ posts \in Seq(Surfaces) /\ posts' = Tail(posts) /\ surface' = Head(posts)
  BY DEF AppFocused, PersistentSurface, TypeOK
<1>2. CASE Len(posts) = 1
  BY <1>1, <1>2 DEF Told
<1>3. CASE Len(posts) # 1
  <2>1. Len(posts) > 1 /\ Len(posts') = Len(posts) - 1
    <3>1. Len(posts) \in Nat /\ Len(posts) # 0
      BY <1>1
    <3>2. Len(Tail(posts)) = Len(posts) - 1
      BY <1>1, <3>1
    <3> QED
      BY <1>1, <1>3, <3>1, <3>2
  <2>2. posts' # <<>> /\ posts'[Len(posts')] = posts[Len(posts)]
    BY <1>1, <2>1
  <2> QED
    BY <1>1, <2>2 DEF Told
<1> QED
  BY <1>2, <1>3

LEMMA IdleName ==
  ASSUME NameInv, UNCHANGED <<focused, xfocus, thread>>, excused \subseteq excused', Told' = Told
  PROVE  NameInv'
  BY DEF NameInv, WillTell, Noticed, Attentive, thread

LEMMA NextName == TypeOK /\ WatchInv /\ NameInv /\ [Next]_vars => NameInv'
<1> SUFFICES ASSUME TypeOK, WatchInv, NameInv, [Next]_vars PROVE NameInv'
  OBVIOUS
<1>1. CASE \E f \in Surfaces \cup {Host} : Focus(f)
  BY <1>1, FocusName
<1>2. CASE CheckForAppFocus
  BY <1>2, WorkerName
<1>3. CASE \/ \E c \in Clippings : CopyInContainer(c) \/ CopyOnHost(c)
           \/ OwnerLeaves \/ HandleXClipboard \/ UNCHANGED vars
  <2>1. UNCHANGED <<posts, surface>>
    BY <1>3 DEF CopyInContainer, CopyOnHost, OwnerLeaves, HandleXClipboard, vars
  <2> QED
    BY <1>3, <2>1, IdleName, CopiesAndPostsWatch DEF Told
<1>4. CASE AppFocused
  BY <1>4, IdleName, CopiesAndPostsWatch, PostKeepsTold
<1> QED
  BY <1>1, <1>2, <1>3, <1>4 DEF Next, Over

\* However the moves of the focus, the answers of Unity and the signals
\* between the threads interleave, the surface that pastes are sent in the
\* name of is the focused one once all is quiet, unless a move went by
\* unseen or from one window of the container to the next.
THEOREM SurfaceIsFocused == Spec => []InItsName
<1>1. TypeOK /\ WatchInv /\ NameInv => InItsName
  <2> SUFFICES ASSUME WatchInv, NameInv, Calm, focused \in Surfaces,
                      ({"moved"} \cup Blind) \cap excused = {}
               PROVE  surface = focused
    BY DEF InItsName, Blind
  <2>1. hasFocus
    BY DEF WatchInv, KnowsTheFocus, Noticed, Calm
  <2> QED
    BY <2>1 DEF NameInv, Told, Calm
<1> QED
  BY <1>1, InitWatch, NextWatch, InitName, NextName, PastedTypes, PTL DEF Spec

-----------------------------------------------------------------------------
(* What the clipboards hold, step by step. *)

\* A copy of a copy is that copy, and no copy is no mime data.
LEMMA CopiedTwice ==
  ASSUME NEW c \in Clippings \cup {Nothing, Null}
  PROVE  /\ Copied(Copied(c)) = Copied(c)
         /\ Copied(c) # Null
         /\ c \in Clippings => Copied(c) \in Clippings
<1>1. CASE c \in {Nothing, Null}
  BY <1>1, NoDataAssumption DEF Copied
<1>2. CASE c \in Clippings /\ c \notin {Nothing, Null}
  <2>1. Copied(c) = [c EXCEPT !.bmp = FALSE] /\ Copied(c) \in Clippings
    BY <1>2 DEF Copied, Clippings
  <2>2. Copied(c).bmp = FALSE /\ Copied(c) \notin {Nothing, Null}
    BY <1>2, <2>1, NoDataAssumption DEF Clippings
  <2>3. Copied(Copied(c)) = [Copied(c) EXCEPT !.bmp = FALSE]
    BY <2>2 DEF Copied
  <2> QED
    BY <2>1, <2>2, <2>3 DEF Clippings
<1> QED
  BY <1>1, <1>2, NoDataAssumption

\* What the main thread does with a paste: it is remembered, and unless it
\* was remembered before it is on the X clipboard.
LEMMA TakesPaste ==
  ASSUME TypeOK, EchoInv, RemembersPasteboard, AppFocused
  PROVE  /\ last' = Copied(pasteboard) /\ UNCHANGED pasteboard
         /\ \/ clipboard' = last' /\ owner' = "pasted"
            \/ UNCHANGED <<clipboard, owner, last>> /\ last # Null
<1>1. PICK p \in LatestPaste :
        IF Takes(p)
        THEN /\ clipboard' = Copied(p) /\ owner' = "pasted"
             /\ IF Sends(clipboard', Remembered(p))
                THEN last' = Copied(clipboard') /\ CreatePaste
                ELSE last' = Remembered(p) /\ UNCHANGED <<pasteboard, excused>>
        ELSE UNCHANGED <<clipboard, owner, last, pasteboard, excused>>
  BY DEF AppFocused
<1>2. p \in Clippings \cup {Nothing, Null} /\ Copied(p) = Copied(pasteboard)
  BY NoDataAssumption DEF LatestPaste, TypeOK, Copied
<1>3. UNCHANGED pasteboard
  BY FocusedKeepsPaste
<1>4. CASE Takes(p)
  <2>1. clipboard' = Copied(p) /\ owner' = "pasted"
    BY <1>1, <1>4
  <2>2. last' = Copied(p)
    BY <1>1, <1>2, <1>4, <2>1, CopiedTwice DEF Remembered
  <2> QED
    BY <1>2, <1>3, <2>1, <2>2
<1>5. CASE ~Takes(p)
  <2>1. p = last /\ last # Null /\ UNCHANGED <<clipboard, owner, last>>
    BY <1>1, <1>5 DEF Takes, Same
  <2> QED
    BY <1>2, <1>3, <2>1 DEF RemembersPasteboard
<1> QED
  BY <1>4, <1>5

\* What it does with a change of the X clipboard.
LEMMA TakesChange ==
  ASSUME TypeOK, HandleXClipboard
  PROVE  /\ changes > 0 /\ changes' = changes - 1 /\ excused \subseteq excused'
         /\ UNCHANGED <<focused, newest, clipboard, owner, surface, thread, posts>>
         /\ \/ /\ clipboard # Nothing /\ last' = Copied(clipboard)
               /\ pasteboard' = last' \/ "refused" \in excused'
            \/ UNCHANGED <<last, pasteboard>> /\ clipboard = last /\ last # Null
            \/ UNCHANGED <<last, pasteboard>> /\ clipboard = Nothing
<1>1. CASE Sends(clipboard, last)
  <2>1. clipboard # Nothing /\ last' = Copied(clipboard) /\ CreatePaste
    BY <1>1 DEF HandleXClipboard, Sends
  <2>2. excused \subseteq excused' /\ (pasteboard' = last' \/ "refused" \in excused')
    BY <2>1 DEF CreatePaste, Excuse
  <2> QED
    BY <2>1, <2>2 DEF HandleXClipboard
<1>2. CASE ~Sends(clipboard, last)
  BY <1>2 DEF HandleXClipboard, Sends, Same
<1> QED
  BY <1>1, <1>2

LEMMA InitAgree == Init => RemembersClipboard /\ RemembersPasteboard /\ HoldsNewest
  BY DEF Init, RemembersClipboard, RemembersPasteboard, HoldsNewest

\* The moves of the focus and the worker.
LEMMA FocusAgree ==
  ASSUME TypeOK, AgreeInv, NEW f \in Surfaces \cup {Host}, Focus(f)
  PROVE  RemembersClipboard' /\ RemembersPasteboard' /\ HoldsNewest'
<1>1. RemembersClipboard'
  BY DEF AgreeInv, RemembersClipboard, Focus
<1>2. ASSUME Blind \cap excused' = {}, f \in Surfaces, hasFocus PROVE focused \in Surfaces
  BY <1>2 DEF AgreeInv, WatchInv, KnowsTheFocus, Noticed, Focus, Blind
<1>3. RemembersPasteboard'
  BY <1>2 DEF AgreeInv, RemembersPasteboard, Focus
<1>4. ASSUME excused' \subseteq {"moved"} PROVE changes = 0 /\ excused \subseteq {"moved"}
  BY <1>4 DEF Focus
<1>5. HoldsNewest'
  BY <1>4 DEF AgreeInv, HoldsNewest, Focus
<1> QED
  BY <1>1, <1>3, <1>5

LEMMA WorkerAgree ==
  ASSUME TypeOK, AgreeInv, CheckForAppFocus
  PROVE  RemembersClipboard' /\ RemembersPasteboard' /\ HoldsNewest'
<1>1. /\ UNCHANGED <<focused, newest, clipboard, owner, pasteboard, last, changes>>
      /\ ~Attentive
  <2>1. CASE IsSurfaceFocused("ask", "select") \/ IsSurfaceFocused("asking", "wait")
    BY <2>1 DEF IsSurfaceFocused, Attentive
  <2>2. CASE Look("start", "ask", "select") \/ Look("event", "asking", "wait")
    BY <2>2 DEF Look, Attentive, outside
  <2>3. CASE SelectInput
    BY <2>3 DEF SelectInput, Attentive, outside
  <2>4. CASE NextEvent
    BY <2>4 DEF NextEvent, Attentive, TypeOK, outside
  <2> QED
    BY <2>1, <2>2, <2>3, <2>4 DEF CheckForAppFocus
<1>2. RemembersClipboard'
  BY <1>1, WorkerExcuses DEF AgreeInv, RemembersClipboard
<1>3. hasFocus' /\ posts' = <<>> => hasFocus /\ posts = <<>>
  <2>1. Append(posts, window) # <<>>
    BY DEF TypeOK
  <2>2. CASE IsSurfaceFocused("ask", "select") \/ IsSurfaceFocused("asking", "wait")
    BY <2>1, <2>2, Answered DEF NowFocused
  <2>3. CASE ~(IsSurfaceFocused("ask", "select") \/ IsSurfaceFocused("asking", "wait"))
    BY <2>3 DEF CheckForAppFocus, Look, SelectInput, NextEvent
  <2> QED
    BY <2>2, <2>3
<1>4. RemembersPasteboard'
  BY <1>1, <1>3, WorkerExcuses DEF AgreeInv, RemembersPasteboard
<1>5. HoldsNewest'
  BY <1>1, WorkerExcuses DEF AgreeInv, HoldsNewest, TypeOK
<1> QED
  BY <1>2, <1>4, <1>5

LEMMA CopyAgree ==
  ASSUME TypeOK, AgreeInv, NEW c \in Clippings, CopyInContainer(c)
  PROVE  RemembersClipboard' /\ RemembersPasteboard' /\ HoldsNewest'
<1>1. RemembersClipboard'
  BY NoDataAssumption DEF AgreeInv, RemembersClipboard, CopyInContainer, Excuse, TypeOK
<1>2. RemembersPasteboard'
  BY DEF AgreeInv, RemembersPasteboard, CopyInContainer, Excuse, thread
<1>3. HoldsNewest'
  BY DEF HoldsNewest, CopyInContainer, Excuse, thread, TypeOK, Attentive
<1> QED
  BY <1>1, <1>2, <1>3

LEMMA HostAgree ==
  ASSUME TypeOK, AgreeInv, NEW c \in Clippings, CopyOnHost(c)
  PROVE  RemembersClipboard' /\ RemembersPasteboard' /\ HoldsNewest'
<1>1. RemembersClipboard'
  BY DEF AgreeInv, RemembersClipboard, CopyOnHost, Excuse
<1>2. RemembersPasteboard'
  BY HostAssumption DEF AgreeInv, RemembersPasteboard, CopyOnHost, Excuse
<1>3. HoldsNewest'
  BY DEF HoldsNewest, CopyOnHost, Excuse, TypeOK
<1> QED
  BY <1>1, <1>2, <1>3

LEMMA LeavesAgree ==
  ASSUME TypeOK, AgreeInv, OwnerLeaves
  PROVE  RemembersClipboard' /\ RemembersPasteboard' /\ HoldsNewest'
  BY DEF AgreeInv, RemembersClipboard, RemembersPasteboard, HoldsNewest, OwnerLeaves, thread

LEMMA ChangeAgree ==
  ASSUME TypeOK, EchoInv, AgreeInv, HandleXClipboard
  PROVE  RemembersClipboard' /\ RemembersPasteboard' /\ HoldsNewest'
<1>1. /\ changes > 0 /\ changes' = changes - 1 /\ changes \in Nat /\ excused \subseteq excused'
      /\ UNCHANGED <<focused, newest, clipboard, owner, surface, thread, posts>>
      /\ \/ /\ clipboard # Nothing /\ last' = Copied(clipboard)
            /\ pasteboard' = last' \/ "refused" \in excused'
         \/ UNCHANGED <<last, pasteboard>> /\ clipboard = last /\ last # Null
         \/ UNCHANGED <<last, pasteboard>> /\ clipboard = Nothing
  BY TakesChange DEF TypeOK
<1>2. /\ clipboard \in Clippings \cup {Nothing} /\ Copied(Copied(clipboard)) = Copied(clipboard)
      /\ Copied(clipboard) # Null
  BY CopiedTwice DEF TypeOK
<1>3. owner \in {"app", "pasted"} /\ (owner = "pasted" => clipboard = last)
  BY DEF EchoInv, OwnIsRemembered, TypeOK
<1>4. RemembersClipboard /\ RemembersPasteboard /\ HoldsNewest
  BY DEF AgreeInv
<1>5. RemembersClipboard'
  BY <1>1, <1>2, <1>3, <1>4 DEF RemembersClipboard, RemembersPasteboard
<1>6. RemembersPasteboard'
  BY <1>1, <1>2, <1>4 DEF RemembersPasteboard, thread
<1>7. ASSUME excused' \subseteq {"moved"}, newest # Null
      PROVE  /\ focused \in Surfaces /\ hasFocus /\ posts = <<>> /\ Attentive /\ clipboard = newest
             /\ clipboard # Nothing
  BY <1>1, <1>4, <1>7, NoDataAssumption DEF HoldsNewest, TypeOK
<1>8. ASSUME excused' \subseteq {"moved"}, newest # Null
      PROVE  Copied(pasteboard') = Copied(newest)
  <2>1. CASE last' = Copied(clipboard) /\ pasteboard' = last'
    BY <1>2, <1>7, <1>8, <2>1
  <2>2. CASE UNCHANGED <<last, pasteboard>> /\ clipboard = last /\ last # Null
    <3>1. last = Copied(pasteboard) /\ Copied(last) = last
      BY <1>1, <1>4, <1>7, <1>8, <2>2 DEF RemembersPasteboard, Blind
    <3> QED
      BY <1>7, <1>8, <2>2, <3>1
  <2> QED
    BY <1>1, <1>7, <1>8, <2>1, <2>2
<1>9. HoldsNewest'
  BY <1>1, <1>7, <1>8 DEF HoldsNewest, thread, Attentive
<1> QED
  BY <1>5, <1>6, <1>9

LEMMA PostAgree ==
  ASSUME TypeOK, EchoInv, AgreeInv, AppFocused
  PROVE  RemembersClipboard' /\ RemembersPasteboard' /\ HoldsNewest'
<1>1. /\ last' = Copied(pasteboard) /\ UNCHANGED pasteboard
      /\ \/ clipboard' = last' /\ owner' = "pasted"
         \/ UNCHANGED <<clipboard, owner, last>> /\ last # Null
  BY TakesPaste DEF AgreeInv
<1>2. UNCHANGED <<focused, newest, excused, thread, changes>> /\ posts # <<>>
  BY FocusedKeepsPaste DEF AppFocused
<1>3. Copied(Copied(pasteboard)) = Copied(pasteboard) /\ Copied(pasteboard) # Null
  BY CopiedTwice DEF TypeOK
<1>4. RemembersClipboard'
  BY <1>1, <1>2, <1>3 DEF AgreeInv, RemembersClipboard
<1>5. RemembersPasteboard'
  BY <1>1, <1>3 DEF RemembersPasteboard
<1>6. ASSUME excused \subseteq {"moved"}, newest # Null
      PROVE  ~(changes > 0) /\ Copied(pasteboard) = Copied(newest)
  BY <1>2, <1>6 DEF AgreeInv, HoldsNewest
<1>7. HoldsNewest'
  BY <1>1, <1>2, <1>6 DEF HoldsNewest
<1> QED
  BY <1>4, <1>5, <1>7

LEMMA NextAgree == TypeOK /\ EchoInv /\ AgreeInv /\ [Next]_vars => AgreeInv'
<1> SUFFICES ASSUME TypeOK, EchoInv, AgreeInv, [Next]_vars
             PROVE  RemembersClipboard' /\ RemembersPasteboard' /\ HoldsNewest'
  BY NextWatch DEF AgreeInv
<1>1. CASE \E f \in Surfaces \cup {Host} : Focus(f)
  BY <1>1, FocusAgree
<1>2. CASE \E c \in Clippings : CopyInContainer(c) \/ CopyOnHost(c)
  BY <1>2, CopyAgree, HostAgree
<1>3. CASE OwnerLeaves
  BY <1>3, LeavesAgree
<1>4. CASE CheckForAppFocus
  BY <1>4, WorkerAgree
<1>5. CASE HandleXClipboard
  BY <1>5, ChangeAgree
<1>6. CASE AppFocused
  BY <1>6, PostAgree
<1>7. CASE UNCHANGED vars
  BY <1>7 DEF vars, outside, thread, AgreeInv, RemembersClipboard, RemembersPasteboard,
              HoldsNewest, Attentive
<1> QED
  BY <1>1, <1>2, <1>3, <1>4, <1>5, <1>6, <1>7 DEF Next, Over

\* Whoever pastes in a window of the container gets what was copied last:
\* once changes and signals are handled the X clipboard and the pasteboard
\* hold the same, and it is the newest copy, whatever the moves of the focus
\* and the handlers of the two threads did in between, for any windows and
\* clippings.
THEOREM ClipboardsHoldTheSame == Spec => []ClipboardsAgree
<1>1. TypeOK /\ AgreeInv => ClipboardsAgree
  <2> SUFFICES ASSUME TypeOK, AgreeInv, Calm, focused \in Surfaces
               PROVE  /\ excused \subseteq {"moved", "crossed"} =>
                           Copied(clipboard) = Copied(pasteboard)
                      /\ excused \subseteq {"moved"} /\ newest # Null =>
                           Copied(clipboard) = Copied(newest)
    BY DEF ClipboardsAgree, InSync, NewestWins
  <2>1. ASSUME excused \subseteq {"moved", "crossed"}
        PROVE  Copied(clipboard) = Copied(pasteboard)
    <3>1. hasFocus /\ posts = <<>> /\ changes = 0
      BY <2>1 DEF AgreeInv, WatchInv, KnowsTheFocus, Noticed, Calm, Blind
    <3>2. last = Copied(pasteboard) /\ last # Null
      BY <2>1, <3>1, CopiedTwice DEF AgreeInv, RemembersPasteboard, TypeOK, Blind
    <3> QED
      BY <2>1, <3>1, <3>2 DEF AgreeInv, RemembersClipboard
  <2>2. ASSUME excused \subseteq {"moved"}, newest # Null
        PROVE  Copied(pasteboard) = Copied(newest)
    BY <2>2 DEF AgreeInv, HoldsNewest, Calm
  <2> QED
    BY <2>1, <2>2
<1>2. Init => AgreeInv
  BY InitWatch, InitAgree DEF AgreeInv
<1> QED
  BY <1>1, <1>2, NextAgree, InitEcho, NextEcho, PastedTypes, PTL DEF Spec
=============================================================================
