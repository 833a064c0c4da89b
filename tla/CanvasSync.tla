----------------------------- MODULE CanvasSync -----------------------------
(***************************************************************************)
(* One browser, its WebSocket connections to the gateway, and the committed *)
(* log it draws (gateway/ws/handler.go, gateway/main.go, frontend/src/canvas*)
(* /Canvas.jsx, drawing.js, ws/useDrawingWS.js).                            *)
(*                                                                          *)
(* Committed entries are posted to the gateway in any order, or not at all, *)
(* and broadcast through the bounded queue of a connection; CANVAS_SYNC is  *)
(* a copy of the log that travels through the same queue; the browser has   *)
(* strokes of its own pending, and undo and redo stacks.  What it sends is  *)
(* logged at most once, in any order (StrokeForwarding!LoggedOnce has the   *)
(* exceptions), and a stroke is its id.  The strokes of another user need no *)
(* state: what the browser sent on an earlier connection, under the user id *)
(* it had there, comes back to it as the strokes of somebody else.          *)
(***************************************************************************)
EXTENDS Integers, FiniteSets, Sequences, SequencesExt

CONSTANTS
    Stroke,    \* ids the browser may give to strokes
    MaxConns,  \* bound on the connections
    MaxLog,    \* bound on the committed entries
    QueueSize  \* the capacity of Client.Send (256)

ASSUME StrokeAssumption == IsFiniteSet(Stroke)
ASSUME LimitAssumption == MaxConns \in Nat /\ MaxLog \in Nat /\ QueueSize \in Nat

VARIABLES
    log,      \* the committed entries [op, id, user]
    posts,    \* indexes of entries whose post is under way
    inFlight, \* messages of the browser between it and the log
    conn,     \* the number of the browser's connection, 0 before the first
    hub,      \* per connection: up, registered, closed, its queue and its sync
    committed, pending, \* the maps of drawing.js
    undoStack, redoStack,
    userId,   \* userIdRef
    used,     \* ids already given
    synced,   \* the browser has handled a CANVAS_SYNC on its connection
    panicked, \* the goroutine that sent on a closed channel
    redone,   \* history: strokes that came from a redo
    undone,   \* history: strokes undone here
    windows   \* history: why the canvas may differ from the log

logVars   == <<log, posts, inFlight>>
hubVars   == <<conn, hub, panicked>>
stackVars == <<undoStack, redoStack, used, redone, undone>>
pageVars  == <<committed, pending, userId, synced>>
vars      == <<logVars, hubVars, stackVars, pageVars, windows>>

Conn == 1..MaxConns

Unused == [up |-> FALSE, registered |-> FALSE, closed |-> FALSE, queue |-> <<>>,
           sync |-> "none", snapshot |-> <<>>]

Init ==
    /\ log = <<>> /\ posts = {} /\ inFlight = {}
    /\ conn = 0 /\ hub = [c \in Conn |-> Unused] /\ panicked = "no"
    /\ committed = {} /\ pending = {}
    /\ undoStack = <<>> /\ redoStack = <<>>
    /\ userId = 0 /\ used = {} /\ synced = FALSE
    /\ redone = {} /\ undone = {} /\ windows = {}

Up == conn # 0 /\ hub[conn].up

Draw(s, u) == [op |-> "draw", id |-> s, user |-> u]

(* Mutant: the undos of a replay are skipped. *)
ReplayDraws(entries) == {entries[k].id : k \in DOMAIN entries}

(* The strokes that a replay of entries in their order leaves on the canvas. *)
Replay(entries) ==
    {e.id : e \in {entries[k] : k \in {j \in DOMAIN entries :
        /\ entries[j].op = "draw"
        /\ \A l \in (j + 1)..Len(entries) : entries[l].id # entries[j].id}}}

Drawn(entries) == {entries[k].id : k \in {j \in DOMAIN entries : entries[j].op = "draw"}}

------------------------------------------------------------------------------
(* The user. *)

(* sendMessage: without an open connection the message is dropped. *)
Send(messages) == inFlight' = IF Up THEN inFlight \cup messages ELSE inFlight

(* The end of a mouse stroke. *)
MouseUp(s) ==
    /\ s \notin used /\ used' = used \cup {s}
    /\ Send({Draw(s, conn)})
    /\ pending' = pending \cup {s}
    /\ UNCHANGED <<log, posts, hubVars, undoStack, redoStack, redone, undone,
                   committed, userId, synced, windows>>

(* Undo removes at once, and sends; a lost message leaves the canvas ahead. *)
OnUndo ==
    /\ undoStack # <<>>
    /\ LET s == Last(undoStack)
       IN  /\ undoStack' = Front(undoStack)
           /\ redoStack' = Append(redoStack, s)
           /\ committed' = committed \ {s}
           /\ pending' = IF s \in committed THEN pending ELSE pending \ {s}
           /\ Send({[op |-> "undo", id |-> s, user |-> conn]})
           /\ undone' = undone \cup {s}
    /\ windows' = IF Up THEN windows ELSE windows \cup {"missed"}
    /\ UNCHANGED <<log, posts, hubVars, used, redone, userId, synced>>

(* Redo draws the stroke again under a new id, and stacks it at once. *)
OnRedo(s) ==
    /\ redoStack # <<>> /\ s \notin used
    /\ used' = used \cup {s} /\ redone' = redone \cup {s}
    /\ redoStack' = Front(redoStack)
    /\ undoStack' = Append(undoStack, s)
    /\ pending' = pending \cup {s}
    /\ Send({Draw(s, conn)})
    /\ UNCHANGED <<log, posts, hubVars, undone, committed, userId, synced, windows>>

------------------------------------------------------------------------------
(* The cluster and the posts. *)

(* Mutant: a stroke that is sent again is logged again. *)
CommitAlways(e) ==
    /\ Len(log) < MaxLog
    /\ log' = Append(log, e)
    /\ posts' = posts \cup {Len(log')}

(* The leader commits an entry and starts its post; the gateway drops a     *)
(* stroke that it has forwarded before.                                     *)
CommitEntry(e) ==
    IF e.op = "draw" /\ e.id \in Drawn(log)
    THEN UNCHANGED <<log, posts>>
    ELSE /\ Len(log) < MaxLog
         /\ log' = Append(log, e)
         /\ posts' = posts \cup {Len(log')}

Commit ==
    /\ \E m \in inFlight : CommitEntry(m) /\ inFlight' = inFlight \ {m}
    /\ UNCHANGED <<hubVars, stackVars, pageVars, windows>>

(* A message of the browser, or a post, is lost; once between two syncs is   *)
(* enough.                                                                  *)
Lose ==
    /\ "missed" \notin windows
    /\ \/ \E m \in inFlight : inFlight' = inFlight \ {m} /\ UNCHANGED posts
       \/ \E i \in posts : posts' = posts \ {i} /\ UNCHANGED inFlight
    /\ windows' = windows \cup {"missed"}
    /\ UNCHANGED <<log, hubVars, stackVars, pageVars>>

------------------------------------------------------------------------------
(* The hub. *)

Full(c) == Len(hub[c].queue) >= QueueSize

(* What internalCommittedHandler makes of the post of an entry. *)
Announced(i) == [type |-> "entry", index |-> i]

(* BroadcastMessage, which holds the lock of the hub: every registered connection gets the entry, or skips it if its  *)
(* queue is full.  Posts of one stroke may overtake each other.             *)
Broadcast(i) ==
    /\ i \in posts
    /\ posts' = posts \ {i}
    /\ hub' = [c \in Conn |->
                 IF hub[c].registered /\ hub[c].up /\ ~Full(c)
                 THEN [hub[c] EXCEPT !.queue = Append(@, Announced(i))]
                 ELSE hub[c]]
    /\ panicked' = IF \E c \in Conn : hub[c].registered /\ hub[c].closed
                   THEN "broadcast" ELSE panicked
    /\ windows' = windows
         \cup (IF \E c \in Conn : hub[c].registered /\ Full(c) THEN {"missed"} ELSE {})
         \cup (IF \E j \in (i + 1)..Len(log) : log[j].id = log[i].id /\ j \notin posts
               THEN {"overtaken"} ELSE {})
    /\ UNCHANGED <<log, inFlight, conn, stackVars, pageVars>>

(* useDrawingWS connects and ServeHTTP registers: USER_COLOR_ASSIGNED is    *)
(* queued, and sendCanvasSync starts.                                       *)
Connect ==
    /\ ~Up /\ conn < MaxConns
    /\ conn' = conn + 1
    /\ hub' = [hub EXCEPT ![conn + 1] =
         [up |-> TRUE, registered |-> TRUE, closed |-> FALSE,
          queue |-> <<[type |-> "user", id |-> conn + 1]>>,
          sync |-> "fetch", snapshot |-> <<>>]]
    /\ synced' = FALSE
    /\ UNCHANGED <<logVars, panicked, stackVars, committed, pending, userId, windows>>

(* The connection breaks, and with it what is queued for it. *)
Break ==
    /\ Up
    /\ hub' = [hub EXCEPT ![conn].up = FALSE, ![conn].queue = <<>>]
    /\ UNCHANGED <<logVars, conn, panicked, stackVars, pageVars, windows>>

(* readPump leaves: it removes the connection from the map ... *)
Unregister(c) ==
    /\ hub[c].registered /\ ~hub[c].up
    /\ hub' = [hub EXCEPT ![c].registered = FALSE]
    /\ UNCHANGED <<logVars, conn, panicked, stackVars, pageVars, windows>>

(* Mutant: the channel is closed before the connection leaves the map. *)
CloseSendFirst(c) ==
    /\ hub[c].registered /\ ~hub[c].up /\ ~hub[c].closed
    /\ hub' = [hub EXCEPT ![c].closed = TRUE]
    /\ UNCHANGED <<logVars, conn, panicked, stackVars, pageVars, windows>>

(* ... and then closes its channel. *)
CloseSend(c) ==
    /\ hub[c] # Unused /\ ~hub[c].registered /\ ~hub[c].closed
    /\ hub' = [hub EXCEPT ![c].closed = TRUE]
    /\ UNCHANGED <<logVars, conn, panicked, stackVars, pageVars, windows>>

(* sendCanvasSync reads the committed entries of the leader, or gives up.   *)
FetchEntries(c) ==
    /\ hub[c].sync = "fetch"
    /\ \/ hub' = [hub EXCEPT ![c].sync = "send", ![c].snapshot = log]
       \/ hub' = [hub EXCEPT ![c].sync = "done"]
    /\ UNCHANGED <<logVars, conn, panicked, stackVars, pageVars, windows>>

(* It queues them later, without the lock of the hub: the channel may be    *)
(* closed by then.                                                          *)
SendSync(c) ==
    /\ hub[c].sync = "send"
    /\ LET done == [hub[c] EXCEPT !.sync = "done", !.snapshot = <<>>]
       IN  hub' = [hub EXCEPT ![c] =
             IF ~hub[c].up \/ Full(c) THEN done
             ELSE [done EXCEPT !.queue =
                     Append(@, [type |-> "sync", entries |-> hub[c].snapshot])]]
    /\ panicked' = IF hub[c].closed THEN "sync" ELSE panicked
    /\ UNCHANGED <<logVars, conn, stackVars, pageVars, windows>>

------------------------------------------------------------------------------
(* The browser receives. *)

Message == Head(hub[conn].queue)
Behind  == Tail(hub[conn].queue)

Pop == hub' = [hub EXCEPT ![conn].queue = Behind]

UserAssigned ==
    /\ userId' = Message.id
    /\ UNCHANGED <<inFlight, stackVars, committed, pending, synced, windows>>

(* handleMessage on STROKE_COMMITTED. *)
StrokeCommitted(e) ==
    /\ e.op = "draw"
    /\ committed' = committed \cup {e.id} /\ pending' = pending \ {e.id}
    /\ IF e.user = userId
       THEN undoStack' = Append(undoStack, e.id) /\ redoStack' = <<>>
       ELSE UNCHANGED <<undoStack, redoStack>>
    /\ UNCHANGED <<inFlight, used, redone, undone, userId, synced, windows>>

(* handleMessage on UNDO_COMPENSATION. *)
UndoCompensation(e) ==
    /\ e.op = "undo"
    /\ committed' = committed \ {e.id}
    /\ pending' = IF e.id \in committed THEN pending ELSE pending \ {e.id}
    /\ UNCHANGED <<inFlight, stackVars, userId, synced, windows>>

(* Mutant: no pending stroke outlives a sync. *)
KeptNone(entries) == {}

(* The pending strokes the snapshot does not have; they are sent again. *)
Kept(entries) == pending \ Drawn(entries)

(* A complete snapshot makes good whatever went wrong before it, unless it  *)
(* is still queued behind it; one that misses an entry whose broadcast is   *)
(* over is not made good until the next.                                    *)
CanvasSynced(entries) ==
  LET queued == {i \in DOMAIN log : Announced(i) \in ToSet(Behind)}
  IN
    /\ committed' = Replay(entries)
    /\ pending' = Kept(entries)
    /\ inFlight' = inFlight \cup {Draw(s, userId) : s \in Kept(entries) \cap Stroke}
    /\ synced' = TRUE
    /\ windows' = (IF queued = {} THEN {} ELSE windows \ {"stale"})
         \cup (IF (Len(entries) + 1)..Len(log) \subseteq posts \cup queued THEN {} ELSE {"stale"})
    /\ UNCHANGED <<stackVars, userId>>

Receive ==
    /\ Up /\ hub[conn].queue # <<>>
    /\ Pop
    /\ \/ Message.type = "user" /\ UserAssigned
       \/ Message.type = "entry" /\ (StrokeCommitted(log[Message.index]) \/ UndoCompensation(log[Message.index]))
       \/ Message.type = "sync" /\ CanvasSynced(Message.entries)
    /\ UNCHANGED <<log, posts, conn, panicked>>

Next ==
    /\ panicked = "no"
    /\ \/ \E s \in Stroke : MouseUp(s) \/ OnRedo(s)
       \/ OnUndo \/ Commit \/ Lose
       \/ \E i \in posts : Broadcast(i)
       \/ Connect \/ Break \/ Receive
       \/ \E c \in Conn : Unregister(c) \/ CloseSend(c) \/ FetchEntries(c) \/ SendSync(c)

Spec == Init /\ [][Next]_vars

------------------------------------------------------------------------------
TypeOK ==
    /\ \A k \in DOMAIN log : log[k].id \in Stroke
    /\ posts \subseteq DOMAIN log
    /\ conn \in 0..MaxConns /\ userId \in 0..conn
    /\ \A c \in Conn : Len(hub[c].queue) <= QueueSize
    /\ committed \subseteq Stroke /\ pending \subseteq used
    /\ used \subseteq Stroke /\ redone \subseteq used /\ undone \subseteq used
    /\ panicked \in {"no", "sync", "broadcast"}
    /\ windows \subseteq {"missed", "overtaken", "stale"}

(* Nothing is under way, and the browser has its CANVAS_SYNC. *)
Quiet == Up /\ synced /\ hub[conn].queue = <<>> /\ posts = {} /\ inFlight = {}

(* When nothing is under way the canvas shows what a replay of the log       *)
(* shows, and no logged stroke is left pending, unless since the last sync  *)
(* a message was lost or skipped or posts of one stroke overtook each other, *)
(* or that sync missed an entry whose broadcast was over.                   *)
Converged ==
    Quiet /\ windows = {} => committed = Replay(log) /\ pending \cap Drawn(log) = {}

(* A stroke the user drew stays on the canvas, through reconnects and syncs, *)
(* until it is undone, unless a stale snapshot hides it.                    *)
OwnStrokesStay ==
    "stale" \notin windows => used \subseteq committed \cup pending \cup undone

(* A stroke is on the undo stack twice only if it came from a redo, which    *)
(* stacks it before its commit stacks it again.                             *)
UndoStackDistinct ==
    \A j, k \in DOMAIN undoStack :
        undoStack[j] = undoStack[k] => j = k \/ undoStack[j] \in redone

(* A broadcast never sends on a closed channel: whoever closes it has taken  *)
(* the connection out of the map.  Only a late CANVAS_SYNC may.             *)
BroadcastNeverPanics == panicked # "broadcast"
==============================================================================
