-------------------------- MODULE CanvasSyncProofs --------------------------
(***************************************************************************)
(* Theorems about CanvasSync, for any strokes, any number of connections    *)
(* and entries, and queues of any size.  The invariant says what every      *)
(* entry of the log that the browser has heard of, and no sync on its way   *)
(* can undo, has done to the canvas.                                        *)
(***************************************************************************)
EXTENDS CanvasSync, SequenceTheorems, WellFoundedInduction, TLAPS

(* A set of naturals has a least element, a bounded one a greatest.         *)
LEMMA LeastOfNat ==
    ASSUME NEW S \in SUBSET Nat, S # {}
    PROVE  \E m \in S : \A k \in S : m <= k
<1> DEFINE R == {ss \in Nat \X Nat : ss[1] < ss[2]}
<1>1. IsWellFoundedOn(R, Nat)
  BY NatLessThanWellFounded DEF OpToRel
<1>2. S \subseteq Nat
  OBVIOUS
<1> HIDE DEF R
<1>3. PICK m \in S : \A k \in S : ~(<<k, m>> \in R)
  BY <1>1, <1>2, WFMin
<1>4. \A k \in S : <<k, m>> \in R <=> k < m
  BY <1>2 DEF R
<1>5. ASSUME NEW k \in S PROVE m <= k
  <2>1. k \in Nat /\ m \in Nat
    BY <1>2
  <2>2. ~(k < m)
    BY <1>3, <1>4
  <2> QED
    BY <2>1, <2>2
<1> QED
  BY <1>5

LEMMA GreatestBelow ==
    ASSUME NEW b \in Nat, NEW S \in SUBSET (0..b), S # {}
    PROVE  \E m \in S : \A k \in S : k <= m
<1> DEFINE T == {b - k : k \in S}
<1>1. T \in SUBSET Nat /\ T # {}
  <2>1. \A k \in S : b - k \in Nat
    OBVIOUS
  <2> QED
    BY <2>1
<1>2. PICK x \in T : \A y \in T : x <= y
  BY <1>1, LeastOfNat
<1>3. PICK m \in S : x = b - m
  BY <1>2
<1>4. \A k \in S : b - m <= b - k /\ k \in Nat
  BY <1>2, <1>3
<1> QED
  BY <1>3, <1>4

Entry == [op : {"draw", "undo"}, id : Stroke, user : Nat]

Msg == [type : {"user"}, id : Nat] \cup [type : {"entry"}, index : Nat]
         \cup [type : {"sync"}, entries : Seq(Entry)]

Connection ==
    [up : BOOLEAN, registered : BOOLEAN, closed : BOOLEAN, queue : Seq(Msg),
     sync : {"none", "fetch", "send", "done"}, snapshot : Seq(Entry)]

(***************************************************************************)
(* The hub.                                                                *)
(***************************************************************************)

(* x is a copy of the first entries of the log s.                           *)
Copy(x, s) == Len(x) <= Len(s) /\ \A k \in 1..Len(x) : x[k] = s[k]

(* A connection: it is registered as long as it is up, and its one sync is  *)
(* a copy of the log.                                                       *)
Fits(h, s) ==
    /\ h \in Connection
    /\ h.registered => ~h.closed
    /\ h.up => h.registered
    /\ ~h.up => h.queue = <<>>
    /\ \A p \in DOMAIN h.queue : h.queue[p].type = "sync" =>
         /\ h.sync = "done" /\ Copy(h.queue[p].entries, s)
         /\ \A r \in DOMAIN h.queue : h.queue[r].type = "sync" => r = p
    /\ h.sync = "send" => Copy(h.snapshot, s)

HubOK ==
    /\ conn \in 0..MaxConns /\ log \in Seq(Entry)
    /\ DOMAIN hub = Conn /\ panicked # "broadcast"
    /\ \A c \in Conn : /\ Fits(hub[c], log)
                       /\ hub[c].up => c = conn
                       /\ c > conn => hub[c] = Unused

LEMMA UnusedFacts ==
    /\ Unused.up = FALSE /\ Unused.registered = FALSE /\ Unused.closed = FALSE
    /\ Unused.queue = <<>> /\ Unused.sync = "none"
BY DEF Unused

LEMMA MsgFacts ==
    ASSUME NEW m \in Msg
    PROVE  /\ m.type \in {"user", "entry", "sync"}
           /\ m.type = "user" => m.id \in Nat
           /\ m.type = "entry" => m.index \in Nat
           /\ m.type = "sync" => m.entries \in Seq(Entry)
BY DEF Msg

LEMMA ConnectionFacts ==
    ASSUME NEW h \in Connection
    PROVE  /\ h.up \in BOOLEAN /\ h.registered \in BOOLEAN /\ h.closed \in BOOLEAN
           /\ h.queue \in Seq(Msg) /\ h.sync \in {"none", "fetch", "send", "done"}
           /\ h.snapshot \in Seq(Entry)
           /\ Len(h.queue) \in Nat /\ DOMAIN h.queue = 1..Len(h.queue)
           /\ \A p \in 1..Len(h.queue) : h.queue[p] \in Msg
<1>1. /\ h.up \in BOOLEAN /\ h.registered \in BOOLEAN /\ h.closed \in BOOLEAN
      /\ h.queue \in Seq(Msg) /\ h.sync \in {"none", "fetch", "send", "done"}
      /\ h.snapshot \in Seq(Entry)
  BY DEF Connection
<1>2. Len(h.queue) \in Nat /\ DOMAIN h.queue = 1..Len(h.queue)
  BY <1>1, LenProperties
<1>3. \A p \in 1..Len(h.queue) : h.queue[p] \in Msg
  BY <1>1, ElementOfSeq
<1> QED
  BY <1>1, <1>2, <1>3

LEMMA CopyLonger ==
    ASSUME NEW s \in Seq(Entry), NEW e \in Entry, NEW x \in Seq(Entry), Copy(x, s)
    PROVE  Copy(x, Append(s, e))
<1>1. Len(s) \in Nat /\ Len(x) \in Nat
  BY LenProperties
<1>2. Len(Append(s, e)) = Len(s) + 1 /\ \A k \in 1..Len(s) : Append(s, e)[k] = s[k]
  BY AppendProperties
<1> QED
  BY <1>1, <1>2 DEF Copy

LEMMA CopySelf == ASSUME NEW s \in Seq(Entry) PROVE Copy(s, s)
<1>1. Len(s) \in Nat
  BY LenProperties
<1> QED
  BY <1>1 DEF Copy

(* A connection after its log has grown.                                    *)
LEMMA FitsLonger ==
    ASSUME NEW s \in Seq(Entry), NEW e \in Entry, NEW h, Fits(h, s)
    PROVE  Fits(h, Append(s, e))
<1>1. h \in Connection
  BY DEF Fits
<1>2. /\ h.snapshot \in Seq(Entry) /\ DOMAIN h.queue = 1..Len(h.queue)
      /\ \A p \in 1..Len(h.queue) : h.queue[p] \in Msg
  BY <1>1, ConnectionFacts
<1>3. h.sync = "send" => Copy(h.snapshot, Append(s, e))
  BY <1>2, CopyLonger DEF Fits
<1>4. ASSUME NEW p \in DOMAIN h.queue, h.queue[p].type = "sync"
      PROVE  Copy(h.queue[p].entries, Append(s, e))
  <2>1. h.queue[p].entries \in Seq(Entry)
    BY <1>2, <1>4, MsgFacts
  <2>2. Copy(h.queue[p].entries, s)
    BY <1>4 DEF Fits
  <2> QED
    BY <2>1, <2>2, CopyLonger
<1> QED
  BY <1>3, <1>4 DEF Fits

(* A connection with one more message in its queue.                         *)
LEMMA FitsMore ==
    ASSUME NEW s \in Seq(Entry), NEW h, Fits(h, s), h.up, NEW m \in Msg,
           NEW g, g \in Connection, g.up = h.up, g.registered = h.registered, g.closed = h.closed,
           g.queue = Append(h.queue, m), g.sync = "send" => h.sync = "send",
           g.snapshot = h.snapshot \/ g.sync # "send",
           h.sync = "done" => g.sync = "done",
           m.type = "sync" => /\ h.sync = "send" /\ g.sync = "done"
                              /\ Copy(m.entries, s)
    PROVE  Fits(g, s)
<1>1. h \in Connection
  BY DEF Fits
<1>2. /\ h.queue \in Seq(Msg) /\ Len(h.queue) \in Nat /\ DOMAIN h.queue = 1..Len(h.queue)
  BY <1>1, ConnectionFacts
<1>3. /\ Len(g.queue) = Len(h.queue) + 1 /\ g.queue[Len(h.queue) + 1] = m
      /\ \A p \in 1..Len(h.queue) : g.queue[p] = h.queue[p]
  BY <1>2, AppendProperties
<1>4. DOMAIN g.queue = 1..(Len(h.queue) + 1)
  BY <1>3, ConnectionFacts
<1>5. ASSUME NEW p \in DOMAIN g.queue, g.queue[p].type = "sync"
      PROVE  /\ g.sync = "done" /\ Copy(g.queue[p].entries, s)
             /\ \A r \in DOMAIN g.queue : g.queue[r].type = "sync" => r = p
  <2>1. CASE m.type = "sync"
    <3>1. \A r \in DOMAIN h.queue : h.queue[r].type # "sync"
      BY <2>1 DEF Fits
    <3>2. \A r \in DOMAIN g.queue : g.queue[r].type = "sync" => r = Len(h.queue) + 1
      BY <3>1, <1>2, <1>3, <1>4
    <3> QED
      BY <3>2, <2>1, <1>3, <1>5
  <2>2. CASE m.type # "sync"
    <3>1. \A r \in DOMAIN g.queue : g.queue[r].type = "sync" =>
            r \in DOMAIN h.queue /\ h.queue[r].type = "sync" /\ g.queue[r] = h.queue[r]
      BY <2>2, <1>2, <1>3, <1>4
    <3>2. p \in DOMAIN h.queue /\ h.queue[p].type = "sync" /\ g.queue[p] = h.queue[p]
      BY <3>1, <1>5
    <3>3. /\ h.sync = "done" /\ Copy(h.queue[p].entries, s)
          /\ \A r \in DOMAIN h.queue : h.queue[r].type = "sync" => r = p
      BY <3>2 DEF Fits
    <3> QED
      BY <3>1, <3>2, <3>3
  <2> QED
    BY <2>1, <2>2
<1> QED
  BY <1>5 DEF Fits

(* A connection whose queue stays, or shrinks to its tail or to nothing.    *)
LEMMA FitsLess ==
    ASSUME NEW s \in Seq(Entry), NEW h, Fits(h, s), NEW g, g \in Connection,
           g.registered => ~g.closed, g.up => g.registered, ~g.up => g.queue = <<>>,
           \/ g.queue = h.queue \/ g.queue = <<>>
           \/ h.queue # <<>> /\ g.queue = Tail(h.queue),
           \/ g.sync = h.sync
           \/ g.sync \in {"send", "done"} /\ h.sync \in {"fetch", "send"},
           g.sync = "send" => Copy(g.snapshot, s)
    PROVE  Fits(g, s)
<1>1. h \in Connection
  BY DEF Fits
<1>2. /\ h.queue \in Seq(Msg) /\ Len(h.queue) \in Nat /\ DOMAIN h.queue = 1..Len(h.queue)
  BY <1>1, ConnectionFacts
<1>3. ASSUME NEW p \in DOMAIN g.queue, g.queue[p].type = "sync"
      PROVE  /\ g.sync = "done" /\ Copy(g.queue[p].entries, s)
             /\ \A r \in DOMAIN g.queue : g.queue[r].type = "sync" => r = p
  <2>1. CASE g.queue = h.queue
    BY <2>1, <1>3 DEF Fits
  <2>2. CASE g.queue = <<>>
    BY <2>2, <1>3, EmptySeq
  <2>3. CASE h.queue # <<>> /\ g.queue = Tail(h.queue)
    <3>1. /\ Len(g.queue) = Len(h.queue) - 1
          /\ \A r \in 1..Len(g.queue) : g.queue[r] = h.queue[r + 1]
      BY <2>3, <1>2, HeadTailProperties
    <3>2. DOMAIN g.queue = 1..Len(g.queue) /\ Len(g.queue) \in Nat
      BY ConnectionFacts
    <3>3. \A r \in DOMAIN g.queue : r + 1 \in DOMAIN h.queue /\ g.queue[r] = h.queue[r + 1] /\ r \in Nat
      BY <3>1, <3>2, <1>2
    <3>4. /\ h.sync = "done" /\ Copy(h.queue[p + 1].entries, s)
          /\ \A r \in DOMAIN h.queue : h.queue[r].type = "sync" => r = p + 1
      BY <3>3, <1>3 DEF Fits
    <3>5. \A r \in DOMAIN g.queue : g.queue[r].type = "sync" => r + 1 = p + 1
      BY <3>3, <3>4
    <3> QED
      BY <3>3, <3>4, <3>5, <1>3
  <2> QED
    BY <2>1, <2>2, <2>3
<1> QED
  BY <1>3 DEF Fits

(* A step of one connection.                                                *)
LEMMA HubStep ==
    ASSUME HubOK, NEW c \in Conn, NEW h, hub' = [hub EXCEPT ![c] = h], Fits(h, log),
           h.up => c = conn, hub[c] # Unused, conn' = conn, log' = log, panicked' # "broadcast"
    PROVE  HubOK'
BY DEF HubOK

(* The browser's own connection.                                            *)
Mine == IF conn = 0 THEN Unused ELSE hub[conn]

LEMMA MineFacts ==
    ASSUME HubOK
    PROVE  /\ Fits(Mine, log) /\ Mine \in Connection /\ (Up <=> Mine.up)
           /\ conn # 0 => conn \in Conn /\ Mine = hub[conn]
<1>1. Unused \in Connection
  <2>1. <<>> \in Seq(Msg) /\ <<>> \in Seq(Entry)
    OBVIOUS
  <2> QED
    BY <2>1 DEF Unused, Connection
<1>2. Fits(Unused, log)
  BY <1>1, UnusedFacts, EmptySeq DEF Fits
<1>3. conn # 0 => conn \in Conn /\ Mine = hub[conn]
  BY LimitAssumption DEF HubOK, Conn, Mine
<1>4. Fits(Mine, log)
  BY <1>2, <1>3 DEF Mine, HubOK
<1>5. Mine \in Connection
  BY <1>4 DEF Fits
<1>6. Up <=> Mine.up
  BY <1>3, UnusedFacts DEF Up, Mine
<1> QED
  BY <1>3, <1>4, <1>5, <1>6

LEMMA MineStep ==
    ASSUME HubOK, NEW c \in Conn, NEW h, hub' = [hub EXCEPT ![c] = h], conn' = conn
    PROVE  Mine' = IF c = conn THEN h ELSE Mine
<1>1. conn # 0 => conn \in Conn
  BY MineFacts
<1>2. c # 0 /\ DOMAIN hub = Conn
  BY DEF Conn, HubOK
<1> QED
  BY <1>1, <1>2 DEF Mine

(***************************************************************************)
(* The inductive invariant.                                                *)
(***************************************************************************)

(* The message at p announces entry i.                                      *)
At(q, p, i) == p \in DOMAIN q /\ q[p].type = "entry" /\ q[p].index = i

(* The browser has still to hear of entry i.                                *)
Coming(h, ps, i) == i \in ps \/ \E p \in Nat : At(h.queue, p, i)

(* Every sync under way to the browser has entry i.                         *)
Ahead(h, i) ==
    /\ \A p \in DOMAIN h.queue : h.queue[p].type = "sync" => i <= Len(h.queue[p].entries)
    /\ h.sync = "send" => i <= Len(h.snapshot)

DrawnAt(s, i, x) == i \in 1..Len(s) /\ s[i].op = "draw" /\ s[i].id = x

Known(e, u, v) == e \in Entry /\ e.id \in u /\ (e.op = "undo" => e.id \in v)

PageOK ==
    /\ posts \subseteq 1..Len(log)
    /\ \A m \in inFlight : Known(m, used, undone)
    /\ \A k \in 1..Len(log) : Known(log[k], used, undone)
    /\ committed \subseteq Stroke /\ userId \in Nat
    /\ undoStack \in Seq(Stroke) /\ redoStack \in Seq(Stroke)
    /\ \A k \in 1..Len(undoStack) : undoStack[k] \in used
    /\ used \subseteq Stroke /\ pending \subseteq used /\ undone \subseteq used

(* A stroke is drawn once in the log.                                       *)
DrawsOnce ==
    \A x \in Stroke : \A i, j \in 1..Len(log) : DrawnAt(log, i, x) /\ DrawnAt(log, j, x) => i = j

(* The browser hears of an entry once.                                      *)
HeardOnce ==
    \A p, i \in Nat : At(Mine.queue, p, i) =>
        /\ i \in 1..Len(log) /\ i \notin posts
        /\ \A r \in Nat : At(Mine.queue, r, i) => r = p

(* A stroke on the undo stack that did not come from a redo was heard of.   *)
Stacked ==
    \A k \in 1..Len(undoStack) : undoStack[k] \notin redone =>
        \E i \in 1..Len(log) : DrawnAt(log, i, undoStack[k]) /\ ~Coming(Mine, posts, i)

(* A stroke that is neither pending nor undone is in the log, and every     *)
(* sync to come shows it, or the browser was told of it.                    *)
Recoverable ==
    \A x \in used : x \notin pending /\ x \notin undone =>
        \E i \in 1..Len(log) :
            DrawnAt(log, i, x) /\ (~Coming(Mine, posts, i) \/ Ahead(Mine, i))

(* What is queued about a stroke is in the order of the log.                *)
InOrder ==
    "missed" \notin windows /\ "overtaken" \notin windows =>
        \A p, i \in Nat : At(Mine.queue, p, i) =>
            \A k \in (i + 1)..Len(log) : log[k].id = log[i].id =>
                k \in posts \/ \E r \in Nat : r > p /\ At(Mine.queue, r, k)

Latest(s, k) == \A l \in (k + 1)..Len(s) : s[l].id # s[k].id

UndoSent(sent, x) == \E m \in sent : m.op = "undo" /\ m.id = x

(* The canvas shows what the latest entry of a stroke says, when the        *)
(* browser has heard of it, unless the user is ahead with an undo.          *)
Shown ==
    Mine.up /\ synced /\ windows = {} =>
        /\ \A k \in 1..Len(log) : ~Coming(Mine, posts, k) /\ Latest(log, k) =>
             /\ log[k].op = "draw" => log[k].id \in committed \/ UndoSent(inFlight, log[k].id)
             /\ log[k].op = "undo" => log[k].id \notin committed
        /\ \A x \in committed : \E k \in 1..Len(log) : log[k].id = x
        /\ \A k \in 1..Len(log) :
             log[k].op = "draw" /\ log[k].id \in pending => Coming(Mine, posts, k)

IndInv ==
    /\ HubOK /\ PageOK /\ DrawsOnce /\ HeardOnce /\ Stacked /\ UndoStackDistinct
    /\ Recoverable /\ OwnStrokesStay /\ InOrder /\ Shown

LEMMA EntryFacts ==
    ASSUME NEW e \in Entry
    PROVE  e.op \in {"draw", "undo"} /\ e.id \in Stroke /\ e.user \in Nat
BY DEF Entry

LEMMA LogFacts ==
    ASSUME HubOK
    PROVE  /\ log \in Seq(Entry) /\ Len(log) \in Nat /\ DOMAIN log = 1..Len(log)
           /\ \A k \in 1..Len(log) : log[k] \in Entry /\ log[k].op \in {"draw", "undo"}
                                     /\ log[k].id \in Stroke
<1>1. log \in Seq(Entry)
  BY DEF HubOK
<1>2. \A k \in 1..Len(log) : log[k] \in Entry
  BY <1>1, ElementOfSeq
<1> QED
  BY <1>1, <1>2, LenProperties, EntryFacts

LEMMA StackFacts ==
    ASSUME PageOK
    PROVE  /\ undoStack \in Seq(Stroke) /\ Len(undoStack) \in Nat
           /\ DOMAIN undoStack = 1..Len(undoStack)
           /\ redoStack \in Seq(Stroke) /\ Len(redoStack) \in Nat
BY LenProperties DEF PageOK

(***************************************************************************)
(* Steps of the hub.                                                       *)
(***************************************************************************)

(* A step of the hub alone: the browser's queue keeps the entries it has,   *)
(* or the browser has no connection, or no sync, any more.                  *)
LEMMA HubOnly ==
    ASSUME IndInv, HubOK', UNCHANGED <<logVars, stackVars, committed, pending, userId, windows>>,
           \A p, i \in Nat : At(Mine'.queue, p, i) => At(Mine.queue, p, i),
           \/ /\ \A p, i \in Nat : At(Mine.queue, p, i) => At(Mine'.queue, p, i)
              /\ Mine'.up = Mine.up /\ synced' = synced
           \/ /\ \A p, i \in Nat : ~At(Mine'.queue, p, i)
              /\ ~(Mine'.up /\ synced'),
           \A i \in 1..Len(log) : Ahead(Mine, i) => Ahead(Mine', i)
    PROVE  IndInv'
<1>1. /\ log' = log /\ posts' = posts /\ inFlight' = inFlight
      /\ undoStack' = undoStack /\ redoStack' = redoStack /\ used' = used /\ redone' = redone
      /\ undone' = undone /\ committed' = committed /\ pending' = pending /\ userId' = userId
      /\ windows' = windows
  BY DEF logVars, stackVars
<1>2. Len(log) \in Nat
  BY LogFacts DEF IndInv
<1>3. PageOK' /\ DrawsOnce' /\ UndoStackDistinct' /\ OwnStrokesStay'
  BY <1>1 DEF IndInv, PageOK, DrawsOnce, UndoStackDistinct, OwnStrokesStay
<1>4. HeardOnce'
  BY <1>1 DEF IndInv, HeardOnce
<1>5. \A i \in 1..Len(log) : ~Coming(Mine, posts, i) => ~Coming(Mine', posts, i)
  BY <1>2 DEF Coming
<1>6. Stacked'
  BY <1>1, <1>5 DEF IndInv, Stacked
<1>7. Recoverable'
  BY <1>1, <1>5 DEF IndInv, Recoverable
<1>8. CASE /\ \A p, i \in Nat : At(Mine.queue, p, i) => At(Mine'.queue, p, i)
           /\ Mine'.up = Mine.up /\ synced' = synced
  <2>1. InOrder'
    <3> SUFFICES ASSUME "missed" \notin windows, "overtaken" \notin windows,
                        NEW p \in Nat, NEW i \in Nat, At(Mine'.queue, p, i),
                        NEW k \in (i + 1)..Len(log), log[k].id = log[i].id
                 PROVE  k \in posts \/ \E r \in Nat : r > p /\ At(Mine'.queue, r, k)
      BY <1>1 DEF InOrder
    <3>1. At(Mine.queue, p, i) /\ k \in Nat
      OBVIOUS
    <3>2. k \in posts \/ \E r \in Nat : r > p /\ At(Mine.queue, r, k)
      BY <3>1 DEF IndInv, InOrder
    <3> QED
      BY <3>1, <3>2, <1>8
  <2>2. \A i \in 1..Len(log) : Coming(Mine, posts, i) <=> Coming(Mine', posts, i)
    BY <1>2, <1>5, <1>8 DEF Coming
  <2>3. Shown'
    BY <1>1, <1>8, <2>2 DEF IndInv, Shown
  <2> QED
    BY <1>3, <1>4, <1>6, <1>7, <2>1, <2>3 DEF IndInv
<1>9. CASE /\ \A p, i \in Nat : ~At(Mine'.queue, p, i)
           /\ ~(Mine'.up /\ synced')
  <2>1. InOrder'
    BY <1>9 DEF InOrder
  <2>2. Shown'
    BY <1>9 DEF Shown
  <2> QED
    BY <1>3, <1>4, <1>6, <1>7, <2>1, <2>2 DEF IndInv
<1> QED
  BY <1>8, <1>9

LEMMA ConnectStep == ASSUME IndInv, Connect PROVE IndInv'
<1> DEFINE m == [type |-> "user", id |-> conn + 1]
<1> DEFINE h == [up |-> TRUE, registered |-> TRUE, closed |-> FALSE, queue |-> <<m>>,
                 sync |-> "fetch", snapshot |-> <<>>]
<1>1. /\ HubOK /\ ~Up /\ conn < MaxConns /\ conn' = conn + 1
      /\ hub' = [hub EXCEPT ![conn + 1] = h] /\ synced' = FALSE
      /\ UNCHANGED <<logVars, panicked, stackVars, committed, pending, userId, windows>>
  BY DEF IndInv, Connect
<1>2. /\ h.up /\ h.registered /\ ~h.closed /\ h.queue = <<m>> /\ h.sync = "fetch"
      /\ m.type = "user" /\ conn \in Nat
  BY <1>1, LimitAssumption DEF HubOK
<1>3. h \in Connection
  <2>1. m \in Msg
    BY <1>2 DEF Msg
  <2>2. <<m>> \in Seq(Msg) /\ <<>> \in Seq(Entry)
    BY <2>1
  <2> QED
    BY <2>2 DEF Connection
<1>4. Len(h.queue) = 1 /\ DOMAIN h.queue = {1} /\ h.queue[1].type = "user"
  BY <1>2
<1> HIDE DEF m, h
<1>5. Fits(h, log)
  BY <1>2, <1>3, <1>4 DEF Fits
<1>6. conn + 1 \in Conn /\ conn' \in 0..MaxConns
  BY <1>1, <1>2, LimitAssumption DEF Conn
<1>7. HubOK'
  <2>1. log' = log /\ panicked' = panicked
    BY <1>1 DEF logVars
  <2>2. ASSUME NEW c \in Conn
        PROVE  Fits(hub'[c], log) /\ (hub'[c].up => c = conn') /\ (c > conn' => hub'[c] = Unused)
    <3>1. CASE c = conn + 1
      BY <3>1, <1>1, <1>2, <1>5, <1>6 DEF HubOK
    <3>2. CASE c # conn + 1
      <4>1. hub'[c] = hub[c] /\ c \in Nat
        BY <3>2, <1>1 DEF HubOK, Conn
      <4>2. ~hub[c].up
        BY <4>1, <1>1, <1>2, <3>2 DEF HubOK, Up, Conn
      <4> QED
        BY <4>1, <4>2, <1>1, <1>2 DEF HubOK
    <3> QED
      BY <3>1, <3>2
  <2> QED
    BY <2>1, <2>2, <1>1, <1>6 DEF HubOK
<1>8. Mine' = h
  BY <1>1, <1>2, <1>6 DEF Mine, HubOK
<1>9. \A p, i \in Nat : ~At(Mine'.queue, p, i)
  BY <1>4, <1>8 DEF At
<1>10. \A i \in 1..Len(log) : Ahead(Mine', i)
  BY <1>2, <1>4, <1>8 DEF Ahead
<1> QED
  BY <1>1, <1>7, <1>9, <1>10, HubOnly

LEMMA BreakStep == ASSUME IndInv, Break PROVE IndInv'
<1> DEFINE h == [hub[conn] EXCEPT !.up = FALSE, !.queue = <<>>]
<1>1. /\ HubOK /\ Up /\ conn' = conn /\ hub' = [hub EXCEPT ![conn].up = FALSE, ![conn].queue = <<>>]
      /\ UNCHANGED <<logVars, panicked, stackVars, committed, pending, userId, windows, synced>>
  BY DEF IndInv, Break, pageVars
<1>2. conn \in Conn /\ Mine = hub[conn] /\ hub[conn] \in Connection /\ Fits(hub[conn], log) /\ hub[conn].up
  BY <1>1, MineFacts DEF Up
<1>3. hub' = [hub EXCEPT ![conn] = h]
  BY <1>1, <1>2 DEF HubOK
<1>4. /\ h \in Connection /\ ~h.up /\ h.queue = <<>> /\ h.registered = hub[conn].registered
      /\ h.closed = hub[conn].closed /\ h.sync = hub[conn].sync /\ h.snapshot = hub[conn].snapshot
  <2>1. <<>> \in Seq(Msg)
    OBVIOUS
  <2> QED
    BY <1>2, <2>1 DEF Connection
<1> HIDE DEF h
<1>5. Fits(h, log)
  BY <1>2, <1>4, FitsLess DEF Fits
<1>6. HubOK'
  <2>1. hub[conn] # Unused
    BY <1>2, UnusedFacts
  <2>2. panicked' # "broadcast" /\ log' = log
    BY <1>1 DEF HubOK, logVars
  <2> QED
    BY <2>1, <2>2, <1>1, <1>2, <1>3, <1>4, <1>5, HubStep
<1>7. Mine' = h
  <2>1. PICK c \in Conn : c = conn
    BY <1>2
  <2>2. hub' = [hub EXCEPT ![c] = h]
    BY <1>3, <2>1
  <2> QED
    BY <2>1, <2>2, <1>1, <1>2 DEF Mine, HubOK, Conn
<1>8. \A p, i \in Nat : ~At(Mine'.queue, p, i)
  BY <1>4, <1>7, EmptySeq DEF At
<1>9. \A i \in 1..Len(log) : Ahead(Mine, i) => Ahead(Mine', i)
  BY <1>2, <1>4, <1>7, EmptySeq DEF Ahead
<1> QED
  BY <1>1, <1>4, <1>6, <1>7, <1>8, <1>9, HubOnly

(* A step of a connection that leaves its queue alone.                      *)
LEMMA QueueKept ==
    ASSUME IndInv, NEW c \in Conn, NEW h, hub' = [hub EXCEPT ![c] = h], hub[c] # Unused,
           Fits(h, log), h.up = hub[c].up, h.queue = hub[c].queue,
           h.sync = "send" => h.snapshot = log \/ (h.snapshot = hub[c].snapshot /\ hub[c].sync = "send"),
           conn' = conn, panicked' # "broadcast",
           UNCHANGED <<logVars, stackVars, pageVars, windows>>
    PROVE  IndInv'
<1>1. HubOK /\ log' = log /\ synced' = synced
  BY DEF IndInv, logVars, pageVars
<1>2. HubOK'
  <2>1. h.up => c = conn
    BY <1>1 DEF HubOK
  <2> QED
    BY <2>1, <1>1, HubStep
<1>3. Mine' = IF c = conn THEN h ELSE Mine
  BY <1>1, MineStep
<1>4. c = conn => Mine = hub[c]
  BY <1>1, MineFacts DEF Conn
<1>5. Mine'.queue = Mine.queue /\ Mine'.up = Mine.up
  BY <1>3, <1>4
<1>6. \A i \in 1..Len(log) : Ahead(Mine, i) => Ahead(Mine', i)
  <2>1. CASE c = conn
    <3>1. Len(log) \in Nat
      BY <1>1, LogFacts
    <3>2. Mine'.sync = "send" => Mine'.snapshot = log \/ (Mine'.snapshot = Mine.snapshot /\ Mine.sync = "send")
      BY <2>1, <1>3, <1>4
    <3> QED
      BY <3>1, <3>2, <1>5 DEF Ahead
  <2>2. CASE c # conn
    BY <2>2, <1>3
  <2> QED
    BY <2>1, <2>2
<1>7. UNCHANGED <<logVars, stackVars, committed, pending, userId, windows>>
  BY DEF pageVars
<1> QED
  BY <1>1, <1>2, <1>5, <1>6, <1>7, HubOnly

LEMMA UnregisterStep == ASSUME IndInv, NEW c \in Conn, Unregister(c) PROVE IndInv'
<1> DEFINE h == [hub[c] EXCEPT !.registered = FALSE]
<1>1. /\ HubOK /\ hub[c].registered /\ ~hub[c].up /\ hub' = [hub EXCEPT ![c].registered = FALSE]
      /\ conn' = conn /\ panicked' = panicked /\ UNCHANGED <<logVars, stackVars, pageVars, windows>>
  BY DEF IndInv, Unregister
<1>2. hub[c] \in Connection /\ Fits(hub[c], log) /\ hub' = [hub EXCEPT ![c] = h]
  BY <1>1 DEF HubOK, Fits
<1>3. /\ h \in Connection /\ h.up = hub[c].up /\ h.queue = hub[c].queue /\ ~h.registered
      /\ h.sync = hub[c].sync /\ h.snapshot = hub[c].snapshot
  BY <1>2 DEF Connection
<1> HIDE DEF h
<1>4. Fits(h, log)
  BY <1>1, <1>2, <1>3, FitsLess DEF Fits
<1>5. hub[c] # Unused /\ panicked' # "broadcast"
  BY <1>1, UnusedFacts DEF HubOK
<1> QED
  BY <1>1, <1>2, <1>3, <1>4, <1>5, QueueKept

LEMMA CloseSendStep == ASSUME IndInv, NEW c \in Conn, CloseSend(c) PROVE IndInv'
<1> DEFINE h == [hub[c] EXCEPT !.closed = TRUE]
<1>1. /\ HubOK /\ hub[c] # Unused /\ ~hub[c].registered /\ hub' = [hub EXCEPT ![c].closed = TRUE]
      /\ conn' = conn /\ panicked' = panicked /\ UNCHANGED <<logVars, stackVars, pageVars, windows>>
  BY DEF IndInv, CloseSend
<1>2. hub[c] \in Connection /\ Fits(hub[c], log) /\ hub' = [hub EXCEPT ![c] = h]
  BY <1>1 DEF HubOK, Fits
<1>3. /\ h \in Connection /\ h.up = hub[c].up /\ h.queue = hub[c].queue
      /\ h.registered = hub[c].registered /\ h.sync = hub[c].sync /\ h.snapshot = hub[c].snapshot
  BY <1>2 DEF Connection
<1> HIDE DEF h
<1>4. Fits(h, log)
  BY <1>1, <1>2, <1>3, FitsLess DEF Fits
<1>5. panicked' # "broadcast"
  BY <1>1 DEF HubOK
<1> QED
  BY <1>1, <1>2, <1>3, <1>4, <1>5, QueueKept

LEMMA FetchStep == ASSUME IndInv, NEW c \in Conn, FetchEntries(c) PROVE IndInv'
<1>1. /\ HubOK /\ hub[c].sync = "fetch" /\ conn' = conn /\ panicked' = panicked
      /\ UNCHANGED <<logVars, stackVars, pageVars, windows>>
  BY DEF IndInv, FetchEntries
<1>2. hub[c] \in Connection /\ Fits(hub[c], log)
  BY <1>1 DEF HubOK, Fits
<1>3. hub[c] # Unused /\ panicked' # "broadcast" /\ log \in Seq(Entry)
  BY <1>1, UnusedFacts DEF HubOK
<1>4. CASE hub' = [hub EXCEPT ![c].sync = "send", ![c].snapshot = log]
  <2> DEFINE h == [hub[c] EXCEPT !.sync = "send", !.snapshot = log]
  <2>1. hub' = [hub EXCEPT ![c] = h]
    BY <1>1, <1>4 DEF HubOK
  <2>2. /\ h \in Connection /\ h.up = hub[c].up /\ h.queue = hub[c].queue
        /\ h.registered = hub[c].registered /\ h.closed = hub[c].closed
        /\ h.sync = "send" /\ h.snapshot = log
    BY <1>2, <1>3 DEF Connection
  <2> HIDE DEF h
  <2>3. Fits(h, log)
    BY <2>2, <1>1, <1>2, <1>3, CopySelf, FitsLess DEF Fits
  <2>4. h.sync = "send" => h.snapshot = log \/ (h.snapshot = hub[c].snapshot /\ hub[c].sync = "send")
    BY <2>2
  <2> QED
    BY <2>1, <2>2, <2>3, <2>4, <1>1, <1>3, QueueKept
<1>5. CASE hub' = [hub EXCEPT ![c].sync = "done"]
  <2> DEFINE h == [hub[c] EXCEPT !.sync = "done"]
  <2>1. hub' = [hub EXCEPT ![c] = h]
    BY <1>1, <1>5 DEF HubOK
  <2>2. /\ h \in Connection /\ h.up = hub[c].up /\ h.queue = hub[c].queue
        /\ h.registered = hub[c].registered /\ h.closed = hub[c].closed /\ h.sync = "done"
    BY <1>2 DEF Connection
  <2> HIDE DEF h
  <2>3. Fits(h, log)
    BY <2>2, <1>1, <1>2, FitsLess DEF Fits
  <2> QED
    BY <2>1, <2>2, <2>3, <1>1, <1>3, QueueKept
<1> QED
  BY <1>4, <1>5 DEF FetchEntries

(* A queue with one more message.                                           *)
LEMMA AppendView ==
    ASSUME NEW q \in Seq(Msg), NEW m \in Msg, NEW i \in Nat
    PROVE  /\ \A p : At(q, p, i) => At(Append(q, m), p, i)
           /\ \A p : At(Append(q, m), p, i) => At(q, p, i) \/ (p = Len(q) + 1 /\ m.type = "entry" /\ m.index = i)
           /\ m.type = "entry" /\ m.index = i => At(Append(q, m), Len(q) + 1, i)
<1>1. Len(q) \in Nat /\ DOMAIN q = 1..Len(q)
  BY LenProperties
<1>2. /\ DOMAIN Append(q, m) = 1..(Len(q) + 1) /\ Append(q, m)[Len(q) + 1] = m
      /\ \A p \in 1..Len(q) : Append(q, m)[p] = q[p]
  BY <1>1, AppendProperties
<1> QED
  BY <1>1, <1>2 DEF At

LEMMA SendSyncStep == ASSUME IndInv, NEW c \in Conn, SendSync(c) PROVE IndInv'
<1>1. /\ HubOK /\ hub[c].sync = "send" /\ conn' = conn
      /\ UNCHANGED <<logVars, stackVars, pageVars, windows>>
  BY DEF IndInv, SendSync
<1>2. hub[c] \in Connection /\ Fits(hub[c], log) /\ Copy(hub[c].snapshot, log)
  BY <1>1 DEF HubOK, Fits
<1>3. hub[c] # Unused /\ panicked' # "broadcast"
  BY <1>1, UnusedFacts DEF HubOK, SendSync
<1> DEFINE h == [hub[c] EXCEPT !.sync = "done", !.snapshot = <<>>]
           m == [type |-> "sync", entries |-> hub[c].snapshot]
           g == [h EXCEPT !.queue = Append(@, m)]
<1>4. hub' = [hub EXCEPT ![c] = IF ~hub[c].up \/ Full(c) THEN h ELSE g]
  BY DEF SendSync
<1>5. /\ h \in Connection /\ h.up = hub[c].up /\ h.queue = hub[c].queue
      /\ h.registered = hub[c].registered /\ h.closed = hub[c].closed /\ h.sync = "done"
  <2>1. <<>> \in Seq(Entry)
    OBVIOUS
  <2> QED
    BY <1>2, <2>1 DEF Connection
<1>6. CASE ~hub[c].up \/ Full(c)
  <2> HIDE DEF h
  <2>1. hub' = [hub EXCEPT ![c] = h]
    BY <1>4, <1>6
  <2>2. Fits(h, log)
    BY <1>5, <1>1, <1>2, FitsLess DEF Fits
  <2> QED
    BY <2>1, <2>2, <1>1, <1>3, <1>5, QueueKept
<1>7. CASE hub[c].up /\ ~Full(c)
  <2>1. m \in Msg /\ m.type = "sync" /\ m.entries = hub[c].snapshot
    BY <1>2, ConnectionFacts DEF Msg
  <2>2. hub' = [hub EXCEPT ![c] = g]
    BY <1>4, <1>7
  <2>3. hub[c].queue \in Seq(Msg)
    BY <1>2, ConnectionFacts
  <2>4. /\ g \in Connection /\ g.up = hub[c].up /\ g.queue = Append(hub[c].queue, m)
        /\ g.registered = hub[c].registered /\ g.closed = hub[c].closed /\ g.sync = "done"
    <3> HIDE DEF m
    <3>1. Append(h.queue, m) \in Seq(Msg)
      BY <2>1, <2>3, <1>5, AppendProperties
    <3> HIDE DEF h
    <3> QED
      BY <3>1, <1>5 DEF Connection
  <2> HIDE DEF g, h, m
  <2>5. Fits(g, log)
    <3>1. log \in Seq(Entry) /\ Copy(m.entries, log)
      BY <2>1, <1>1, <1>2 DEF HubOK
    <3> QED
      BY <3>1, <2>1, <2>4, <1>1, <1>2, <1>7, FitsMore
  <2>6. c = conn
    BY <1>1, <1>7 DEF HubOK
  <2>7. HubOK'
    <3>1. log' = log
      BY <1>1 DEF logVars
    <3> QED
      BY <3>1, <2>2, <2>5, <2>6, <1>1, <1>3, HubStep
  <2>8. Mine' = g /\ Mine = hub[c]
    <3>1. Mine' = IF c = conn THEN g ELSE Mine
      BY <2>2, <1>1, MineStep
    <3>2. conn # 0 /\ Mine = hub[conn]
      BY <2>6, <1>1, MineFacts DEF Conn
    <3> QED
      BY <3>1, <3>2, <2>6
  <2>9. \A p, i \in Nat : At(Mine'.queue, p, i) <=> At(Mine.queue, p, i)
    <3>1. \A p, i \in Nat : At(g.queue, p, i) <=> At(hub[c].queue, p, i)
      BY <2>1, <2>3, <2>4, AppendView
    <3> QED
      BY <3>1, <2>8
  <2>10. \A i \in 1..Len(log) : Ahead(Mine, i) => Ahead(Mine', i)
    <3> SUFFICES ASSUME NEW i \in 1..Len(log), Ahead(Mine, i) PROVE Ahead(Mine', i)
      OBVIOUS
    <3>1. i <= Len(m.entries)
      BY <1>1, <2>1, <2>8 DEF Ahead
    <3>2. Len(hub[c].queue) \in Nat /\ DOMAIN hub[c].queue = 1..Len(hub[c].queue)
      BY <2>3, LenProperties
    <3>3. /\ DOMAIN g.queue = 1..(Len(hub[c].queue) + 1) /\ g.queue[Len(hub[c].queue) + 1] = m
          /\ \A p \in 1..Len(hub[c].queue) : g.queue[p] = hub[c].queue[p]
      BY <2>1, <2>3, <2>4, AppendProperties
    <3>4. \A p \in DOMAIN g.queue : g.queue[p].type = "sync" => i <= Len(g.queue[p].entries)
      <4> SUFFICES ASSUME NEW p \in DOMAIN g.queue, g.queue[p].type = "sync"
                   PROVE  i <= Len(g.queue[p].entries)
        OBVIOUS
      <4>1. CASE p = Len(hub[c].queue) + 1
        BY <4>1, <3>1, <3>3
      <4>2. CASE p # Len(hub[c].queue) + 1
        <5>1. p \in DOMAIN hub[c].queue /\ g.queue[p] = hub[c].queue[p]
          BY <4>2, <3>2, <3>3
        <5> QED
          BY <5>1, <2>8 DEF Ahead
      <4> QED
        BY <4>1, <4>2
    <3> QED
      BY <3>4, <2>4, <2>8 DEF Ahead
  <2>11. synced' = synced /\ UNCHANGED <<logVars, stackVars, committed, pending, userId, windows>>
    BY <1>1 DEF pageVars
  <2> QED
    BY <2>4, <2>7, <2>8, <2>9, <2>10, <2>11, HubOnly
<1> QED
  BY <1>6, <1>7

(***************************************************************************)
(* Steps of the user.                                                      *)
(***************************************************************************)

LEMMA UserStep ==
    ASSUME IndInv, UNCHANGED <<log, posts, hubVars>>
    PROVE  /\ log' = log /\ posts' = posts /\ Mine' = Mine
           /\ HubOK' /\ DrawsOnce' /\ HeardOnce' /\ (windows \subseteq windows' => InOrder')
<1>1. log' = log /\ posts' = posts /\ conn' = conn /\ hub' = hub /\ panicked' = panicked
  BY DEF hubVars
<1>2. Mine' = Mine
  BY <1>1 DEF Mine
<1> QED
  BY <1>1, <1>2 DEF IndInv, HubOK, DrawsOnce, HeardOnce, InOrder

LEMMA KnownMore ==
    ASSUME NEW e, NEW u, NEW v, NEW u2, NEW v2, u \subseteq u2, v \subseteq v2, Known(e, u, v)
    PROVE  Known(e, u2, v2)
BY DEF Known

LEMMA Sent ==
    ASSUME NEW ms, Send(ms)
    PROVE  inFlight \subseteq inFlight' /\ inFlight' \subseteq inFlight \cup ms
           /\ (Up => inFlight' = inFlight \cup ms)
BY DEF Send

LEMMA MouseUpStep == ASSUME IndInv, NEW s \in Stroke, MouseUp(s) PROVE IndInv'
<1>1. /\ s \notin used /\ used' = used \cup {s} /\ pending' = pending \cup {s}
      /\ UNCHANGED <<log, posts, hubVars>>
      /\ undoStack' = undoStack /\ redoStack' = redoStack /\ redone' = redone /\ undone' = undone
      /\ committed' = committed /\ userId' = userId /\ synced' = synced /\ windows' = windows
  BY DEF MouseUp
<1>2. /\ log' = log /\ posts' = posts /\ Mine' = Mine
      /\ HubOK' /\ DrawsOnce' /\ HeardOnce' /\ InOrder'
  BY <1>1, UserStep
<1>3. inFlight \subseteq inFlight' /\ inFlight' \subseteq inFlight \cup {Draw(s, conn)}
  BY Sent DEF MouseUp
<1>4. PageOK'
  <2>1. PageOK
    BY DEF IndInv
  <2>2. Known(Draw(s, conn), used', undone')
    <3>1. conn \in Nat
      BY LimitAssumption DEF IndInv, HubOK
    <3> QED
      BY <3>1, <1>1 DEF Known, Draw, Entry
  <2>3. \A m \in inFlight' : Known(m, used', undone')
    BY <2>1, <2>2, <1>1, <1>3, KnownMore DEF PageOK
  <2>4. \A k \in 1..Len(log) : Known(log[k], used', undone')
    BY <2>1, <1>1, KnownMore DEF PageOK
  <2> QED
    BY <2>1, <2>3, <2>4, <1>1, <1>2 DEF PageOK
<1>5. Stacked' /\ UndoStackDistinct'
  BY <1>1, <1>2 DEF IndInv, Stacked, UndoStackDistinct
<1>6. Recoverable' /\ OwnStrokesStay'
  BY <1>1, <1>2 DEF IndInv, Recoverable, OwnStrokesStay
<1>7. Shown'
  <2>1. \A k \in 1..Len(log) : log[k].id # s
    BY <1>1 DEF IndInv, PageOK, Known
  <2>2. \A x : UndoSent(inFlight, x) => UndoSent(inFlight', x)
    BY <1>3 DEF UndoSent
  <2> QED
    BY <2>1, <2>2, <1>1, <1>2 DEF IndInv, Shown
<1> QED
  BY <1>2, <1>4, <1>5, <1>6, <1>7 DEF IndInv

LEMMA OnUndoStep == ASSUME IndInv, OnUndo PROVE IndInv'
<1>1. PICK s : s = Last(undoStack)
  OBVIOUS
<1> DEFINE m == [op |-> "undo", id |-> s, user |-> conn]
<1>2. /\ undoStack # <<>> /\ undoStack' = Front(undoStack) /\ redoStack' = Append(redoStack, s)
      /\ committed' = committed \ {s} /\ pending' \subseteq pending /\ pending \subseteq pending' \cup {s}
      /\ Send({m}) /\ undone' = undone \cup {s}
      /\ windows' = (IF Up THEN windows ELSE windows \cup {"missed"})
      /\ UNCHANGED <<log, posts, hubVars>>
      /\ used' = used /\ redone' = redone /\ userId' = userId /\ synced' = synced
  BY <1>1 DEF OnUndo
<1>3. /\ log' = log /\ posts' = posts /\ Mine' = Mine
      /\ HubOK' /\ DrawsOnce' /\ HeardOnce' /\ InOrder'
  BY <1>2, UserStep
<1>4. inFlight \subseteq inFlight' /\ inFlight' \subseteq inFlight \cup {m} /\ (Up => inFlight' = inFlight \cup {m})
  BY <1>2, Sent
<1>5. PageOK
  BY DEF IndInv
<1>6. /\ undoStack' \in Seq(Stroke) /\ Len(undoStack') = Len(undoStack) - 1 /\ Len(undoStack) \in Nat
      /\ Len(undoStack) >= 1
      /\ \A k \in 1..Len(undoStack') : k \in 1..Len(undoStack) /\ undoStack'[k] = undoStack[k]
      /\ s = undoStack[Len(undoStack)]
      /\ DOMAIN undoStack' = 1..Len(undoStack') /\ DOMAIN undoStack = 1..Len(undoStack)
  <2>1. undoStack \in Seq(Stroke) /\ Len(undoStack) \in Nat /\ DOMAIN undoStack = 1..Len(undoStack)
    BY <1>5, StackFacts
  <2>2. Len(undoStack) >= 1
    BY <2>1, <1>2, EmptySeq, LenProperties
  <2>3. /\ Front(undoStack) \in Seq(Stroke) /\ Len(Front(undoStack)) = Len(undoStack) - 1
        /\ \A k \in 1..(Len(undoStack) - 1) : Front(undoStack)[k] = undoStack[k]
    BY <2>1, <2>2 DEF Front
  <2>4. Last(undoStack) = undoStack[Len(undoStack)]
    BY DEF Last
  <2>5. undoStack' \in Seq(Stroke) /\ DOMAIN undoStack' = 1..Len(undoStack')
    BY <2>3, <1>2, LenProperties
  <2>6. Len(undoStack') = Len(undoStack) - 1 /\ s = undoStack[Len(undoStack)]
    BY <2>3, <2>4, <1>1, <1>2
  <2>7. \A k \in 1..Len(undoStack') : k \in 1..Len(undoStack) /\ undoStack'[k] = undoStack[k]
    BY <2>1, <2>3, <2>6, <1>2
  <2> QED
    BY <2>1, <2>2, <2>5, <2>6, <2>7
<1>7. s \in used /\ s \in Stroke
  BY <1>5, <1>6 DEF PageOK
<1>8. PageOK'
  <2>1. Known(m, used', undone')
    <3>1. conn \in Nat
      BY LimitAssumption DEF IndInv, HubOK
    <3> QED
      BY <3>1, <1>2, <1>7 DEF Known, Entry
  <2>2. \A n \in inFlight' : Known(n, used', undone')
    BY <2>1, <1>5, <1>2, <1>4, KnownMore DEF PageOK
  <2>3. \A k \in 1..Len(log) : Known(log[k], used', undone')
    BY <1>5, <1>2, KnownMore DEF PageOK
  <2>4. redoStack' \in Seq(Stroke)
    BY <1>2, <1>5, <1>7, AppendProperties DEF PageOK
  <2>5. \A k \in 1..Len(undoStack') : undoStack'[k] \in used
    BY <1>5, <1>6 DEF PageOK
  <2> QED
    BY <2>2, <2>3, <2>4, <2>5, <1>2, <1>3, <1>5, <1>6, <1>7 DEF PageOK
<1>9. Stacked' /\ UndoStackDistinct'
  <2>1. Stacked'
    <3> SUFFICES ASSUME NEW k \in 1..Len(undoStack'), undoStack'[k] \notin redone
                 PROVE  \E i \in 1..Len(log) : DrawnAt(log, i, undoStack'[k]) /\ ~Coming(Mine, posts, i)
      BY <1>2, <1>3 DEF Stacked
    <3> QED
      BY <1>6 DEF IndInv, Stacked
  <2>2. UndoStackDistinct'
    <3> SUFFICES ASSUME NEW j \in DOMAIN undoStack', NEW k \in DOMAIN undoStack',
                        undoStack'[j] = undoStack'[k]
                 PROVE  j = k \/ undoStack'[j] \in redone
      BY <1>2 DEF UndoStackDistinct
    <3> QED
      BY <1>6 DEF IndInv, UndoStackDistinct
  <2> QED
    BY <2>1, <2>2
<1>10. Recoverable'
  BY <1>2, <1>3 DEF IndInv, Recoverable
<1>11. OwnStrokesStay'
  BY <1>2 DEF IndInv, OwnStrokesStay
<1>12. Shown'
  <2> SUFFICES ASSUME Mine.up, synced, windows' = {} PROVE Shown'
    BY <1>2, <1>3 DEF Shown
  <2>1. Up /\ windows = {}
    BY <1>2, MineFacts DEF IndInv
  <2>2. inFlight' = inFlight \cup {m}
    BY <2>1, <1>4
  <2>3. \A x : UndoSent(inFlight, x) => UndoSent(inFlight', x)
    BY <2>2 DEF UndoSent
  <2>4. UndoSent(inFlight', s)
    <3>1. m \in inFlight' /\ m.op = "undo" /\ m.id = s
      BY <2>2
    <3> QED
      BY <3>1 DEF UndoSent
  <2> QED
    BY <2>1, <2>3, <2>4, <1>2, <1>3 DEF IndInv, Shown
<1> QED
  BY <1>3, <1>8, <1>9, <1>10, <1>11, <1>12 DEF IndInv

LEMMA OnRedoStep == ASSUME IndInv, NEW s \in Stroke, OnRedo(s) PROVE IndInv'
<1>1. /\ s \notin used /\ used' = used \cup {s} /\ redone' = redone \cup {s}
      /\ redoStack # <<>> /\ redoStack' = Front(redoStack) /\ undoStack' = Append(undoStack, s)
      /\ pending' = pending \cup {s} /\ UNCHANGED <<log, posts, hubVars>> /\ undone' = undone
      /\ committed' = committed /\ userId' = userId /\ synced' = synced /\ windows' = windows
  BY DEF OnRedo
<1>2. /\ log' = log /\ posts' = posts /\ Mine' = Mine
      /\ HubOK' /\ DrawsOnce' /\ HeardOnce' /\ InOrder'
  BY <1>1, UserStep
<1>3. inFlight \subseteq inFlight' /\ inFlight' \subseteq inFlight \cup {Draw(s, conn)}
  BY Sent DEF OnRedo
<1>4. PageOK
  BY DEF IndInv
<1>5. /\ undoStack' \in Seq(Stroke) /\ Len(undoStack') = Len(undoStack) + 1 /\ Len(undoStack) \in Nat
      /\ \A k \in 1..Len(undoStack) : undoStack'[k] = undoStack[k]
      /\ undoStack'[Len(undoStack) + 1] = s
      /\ DOMAIN undoStack' = 1..(Len(undoStack) + 1) /\ DOMAIN undoStack = 1..Len(undoStack)
  BY <1>1, <1>4, StackFacts, AppendProperties
<1>6. PageOK'
  <2>1. Known(Draw(s, conn), used', undone')
    <3>1. conn \in Nat
      BY LimitAssumption DEF IndInv, HubOK
    <3> QED
      BY <3>1, <1>1 DEF Known, Draw, Entry
  <2>2. \A m \in inFlight' : Known(m, used', undone')
    BY <2>1, <1>1, <1>3, <1>4, KnownMore DEF PageOK
  <2>3. \A k \in 1..Len(log) : Known(log[k], used', undone')
    BY <1>1, <1>4, KnownMore DEF PageOK
  <2>4. redoStack' \in Seq(Stroke)
    <3>1. redoStack \in Seq(Stroke) /\ Len(redoStack) \in Nat
      BY <1>4, StackFacts
    <3>2. Len(redoStack) >= 1
      BY <3>1, <1>1, EmptySeq, LenProperties
    <3> QED
      BY <3>1, <3>2, <1>1 DEF Front
  <2>5. \A k \in 1..Len(undoStack') : undoStack'[k] \in used'
    BY <1>1, <1>4, <1>5 DEF PageOK
  <2> QED
    BY <2>2, <2>3, <2>4, <2>5, <1>1, <1>2, <1>4, <1>5 DEF PageOK
<1>7. Stacked'
  <2> SUFFICES ASSUME NEW k \in 1..Len(undoStack'), undoStack'[k] \notin redone'
               PROVE  \E i \in 1..Len(log) : DrawnAt(log, i, undoStack'[k]) /\ ~Coming(Mine, posts, i)
    BY <1>2 DEF Stacked
  <2>1. k \in 1..Len(undoStack) /\ undoStack'[k] = undoStack[k]
    BY <1>1, <1>5
  <2> QED
    BY <2>1, <1>1 DEF IndInv, Stacked
<1>8. UndoStackDistinct'
  <2> SUFFICES ASSUME NEW j \in DOMAIN undoStack', NEW k \in DOMAIN undoStack',
                      undoStack'[j] = undoStack'[k], undoStack'[j] \notin redone'
               PROVE  j = k
    BY DEF UndoStackDistinct
  <2>1. j \in DOMAIN undoStack /\ k \in DOMAIN undoStack
    BY <1>1, <1>5
  <2> QED
    BY <2>1, <1>1, <1>5 DEF IndInv, UndoStackDistinct
<1>9. Recoverable' /\ OwnStrokesStay'
  BY <1>1, <1>2 DEF IndInv, Recoverable, OwnStrokesStay
<1>10. Shown'
  <2>1. \A k \in 1..Len(log) : log[k].id # s
    BY <1>1 DEF IndInv, PageOK, Known
  <2>2. \A x : UndoSent(inFlight, x) => UndoSent(inFlight', x)
    BY <1>3 DEF UndoSent
  <2> QED
    BY <2>1, <2>2, <1>1, <1>2 DEF IndInv, Shown
<1> QED
  BY <1>2, <1>6, <1>7, <1>8, <1>9, <1>10 DEF IndInv

(***************************************************************************)
(* Steps of the cluster and the posts.                                     *)
(***************************************************************************)

LEMMA DroppedStep ==
    ASSUME IndInv, NEW m \in inFlight, m.op = "draw", inFlight' = inFlight \ {m}, log' = log, posts' = posts,
           UNCHANGED <<hubVars, stackVars, pageVars, windows>>
    PROVE  IndInv'
<1>1. /\ undoStack' = undoStack /\ redoStack' = redoStack /\ used' = used /\ redone' = redone
      /\ undone' = undone /\ committed' = committed /\ pending' = pending /\ userId' = userId
      /\ synced' = synced /\ windows' = windows
  BY DEF stackVars, pageVars
<1>2. Mine' = Mine /\ HubOK' /\ DrawsOnce' /\ HeardOnce' /\ InOrder'
  BY <1>1, UserStep
<1>3. PageOK' /\ Stacked' /\ UndoStackDistinct' /\ Recoverable' /\ OwnStrokesStay'
  BY <1>1, <1>2 DEF IndInv, PageOK, Stacked, UndoStackDistinct, Recoverable, OwnStrokesStay
<1>4. Shown'
  <2>1. \A x : UndoSent(inFlight, x) => UndoSent(inFlight', x)
    BY DEF UndoSent
  <2> QED
    BY <2>1, <1>1, <1>2 DEF IndInv, Shown
<1> QED
  BY <1>2, <1>3, <1>4 DEF IndInv

LEMMA AppendedStep ==
    ASSUME IndInv, NEW m \in inFlight, inFlight' = inFlight \ {m},
           ~(m.op = "draw" /\ m.id \in Drawn(log)),
           log' = Append(log, m), posts' = posts \cup {Len(log')},
           UNCHANGED <<hubVars, stackVars, pageVars, windows>>
    PROVE  IndInv'
<1>1. /\ undoStack' = undoStack /\ redoStack' = redoStack /\ used' = used /\ redone' = redone
      /\ undone' = undone /\ committed' = committed /\ pending' = pending /\ userId' = userId
      /\ synced' = synced /\ windows' = windows
      /\ conn' = conn /\ hub' = hub /\ panicked' = panicked
  BY DEF stackVars, pageVars, hubVars
<1>2. Known(m, used, undone) /\ m \in Entry
  BY DEF IndInv, PageOK, Known
<1>3. /\ log \in Seq(Entry) /\ Len(log) \in Nat /\ DOMAIN log = 1..Len(log)
      /\ \A k \in 1..Len(log) : log[k] \in Entry /\ log[k].op \in {"draw", "undo"} /\ log[k].id \in Stroke
  BY LogFacts DEF IndInv
<1> DEFINE n == Len(log)
<1>4. /\ log' \in Seq(Entry) /\ Len(log') = n + 1 /\ log'[n + 1] = m /\ \A k \in 1..n : log'[k] = log[k]
      /\ posts' = posts \cup {n + 1}
  BY <1>2, <1>3, AppendProperties
<1>5. n \in Nat /\ posts \subseteq 1..n
  BY <1>3 DEF IndInv, PageOK
<1>6. Mine' = Mine
  BY <1>1 DEF Mine
<1>7. HubOK'
  <2>1. HubOK
    BY DEF IndInv
  <2>2. \A c \in Conn : Fits(hub[c], log')
    BY <2>1, <1>2, <1>3, FitsLonger DEF HubOK
  <2> QED
    BY <2>1, <2>2, <1>1, <1>4 DEF HubOK
<1> HIDE DEF n
<1>8. PageOK'
  <2>1. PageOK
    BY DEF IndInv
  <2>2. \A k \in 1..Len(log') : Known(log'[k], used, undone)
    BY <2>1, <1>2, <1>4, <1>5 DEF PageOK, n
  <2>3. posts' \subseteq 1..Len(log')
    BY <1>4, <1>5
  <2> QED
    BY <2>1, <2>2, <2>3, <1>1 DEF PageOK
<1>9. \A i \in 1..n : Coming(Mine, posts', i) <=> Coming(Mine, posts, i)
  BY <1>4, <1>5 DEF Coming
<1>10. \A x, i : DrawnAt(log, i, x) => i \in 1..n /\ DrawnAt(log', i, x)
  BY <1>4, <1>5 DEF DrawnAt, n
<1>11. DrawsOnce'
  <2> SUFFICES ASSUME NEW x \in Stroke, NEW i \in 1..Len(log'), NEW j \in 1..Len(log'),
                      DrawnAt(log', i, x), DrawnAt(log', j, x)
               PROVE  i = j
    BY DEF DrawsOnce
  <2>1. \A k \in 1..n : DrawnAt(log', k, x) => DrawnAt(log, k, x)
    BY <1>4 DEF DrawnAt, n
  <2>2. \A k \in 1..n : DrawnAt(log, k, x) => ~DrawnAt(log', n + 1, x)
    BY <1>3, <1>4, <1>5 DEF DrawnAt, Drawn, n
  <2>3. (i \in 1..n \/ i = n + 1) /\ (j \in 1..n \/ j = n + 1)
    BY <1>4, <1>5
  <2>4. \A k, l \in 1..n : DrawnAt(log, k, x) /\ DrawnAt(log, l, x) => k = l
    BY DEF IndInv, DrawsOnce, n
  <2> QED
    BY <2>1, <2>2, <2>3, <2>4
<1>12. HeardOnce'
  <2> SUFFICES ASSUME NEW p \in Nat, NEW i \in Nat, At(Mine.queue, p, i)
               PROVE  /\ i \in 1..Len(log') /\ i \notin posts'
                      /\ \A r \in Nat : At(Mine.queue, r, i) => r = p
    BY <1>6 DEF HeardOnce
  <2>1. i \in 1..n /\ i \notin posts /\ \A r \in Nat : At(Mine.queue, r, i) => r = p
    BY DEF IndInv, HeardOnce, n
  <2> QED
    BY <2>1, <1>4, <1>5
<1>13. Stacked'
  <2> SUFFICES ASSUME NEW k \in 1..Len(undoStack), undoStack[k] \notin redone
               PROVE  \E i \in 1..Len(log') : DrawnAt(log', i, undoStack[k]) /\ ~Coming(Mine, posts', i)
    BY <1>1, <1>6 DEF Stacked
  <2>1. PICK i \in 1..n : DrawnAt(log, i, undoStack[k]) /\ ~Coming(Mine, posts, i)
    BY DEF IndInv, Stacked, n
  <2>2. i \in 1..Len(log') /\ DrawnAt(log', i, undoStack[k])
    BY <2>1, <1>4, <1>5, <1>10
  <2>3. ~Coming(Mine, posts', i)
    BY <2>1, <1>9
  <2> QED
    BY <2>2, <2>3
<1>14. Recoverable'
  <2> SUFFICES ASSUME NEW x \in used, x \notin pending, x \notin undone
               PROVE  \E i \in 1..Len(log') :
                        DrawnAt(log', i, x) /\ (~Coming(Mine, posts', i) \/ Ahead(Mine, i))
    BY <1>1, <1>6 DEF Recoverable
  <2>1. PICK i \in 1..n : DrawnAt(log, i, x) /\ (~Coming(Mine, posts, i) \/ Ahead(Mine, i))
    BY DEF IndInv, Recoverable, n
  <2>2. i \in 1..Len(log') /\ DrawnAt(log', i, x)
    BY <2>1, <1>4, <1>5, <1>10
  <2>3. ~Coming(Mine, posts', i) \/ Ahead(Mine, i)
    BY <2>1, <1>9
  <2> QED
    BY <2>2, <2>3
<1>15. UndoStackDistinct' /\ OwnStrokesStay'
  BY <1>1 DEF IndInv, UndoStackDistinct, OwnStrokesStay
<1>16. InOrder'
  <2> SUFFICES ASSUME "missed" \notin windows, "overtaken" \notin windows,
                      NEW p \in Nat, NEW i \in Nat, At(Mine.queue, p, i),
                      NEW k \in (i + 1)..Len(log'), log'[k].id = log'[i].id
               PROVE  k \in posts' \/ \E r \in Nat : r > p /\ At(Mine.queue, r, k)
    BY <1>1, <1>6 DEF InOrder
  <2>1. i \in 1..n
    BY DEF IndInv, HeardOnce, n
  <2>2. CASE k = n + 1
    BY <2>2, <1>4
  <2>3. CASE k # n + 1
    <3>1. k \in (i + 1)..n /\ log[k].id = log[i].id
      BY <2>1, <2>3, <1>4, <1>5
    <3> QED
      BY <3>1, <1>4 DEF IndInv, InOrder, n
  <2> QED
    BY <2>2, <2>3
<1>17. Shown'
  <2> SUFFICES ASSUME Mine.up, synced, windows = {} PROVE Shown'
    BY <1>1, <1>6 DEF Shown
  <2>1. /\ \A k \in 1..n : ~Coming(Mine, posts, k) /\ Latest(log, k) =>
             /\ log[k].op = "draw" => log[k].id \in committed \/ UndoSent(inFlight, log[k].id)
             /\ log[k].op = "undo" => log[k].id \notin committed
        /\ \A x \in committed : \E k \in 1..n : log[k].id = x
        /\ \A k \in 1..n : log[k].op = "draw" /\ log[k].id \in pending => Coming(Mine, posts, k)
    BY DEF IndInv, Shown, n
  <2>2. Coming(Mine, posts', n + 1)
    BY <1>4 DEF Coming
  <2>3. \A k \in 1..Len(log') : k \in 1..n \/ k = n + 1
    BY <1>4, <1>5
  <2>4. ASSUME NEW k \in 1..Len(log'), ~Coming(Mine, posts', k), Latest(log', k)
        PROVE  /\ log'[k].op = "draw" => log'[k].id \in committed \/ UndoSent(inFlight', log'[k].id)
               /\ log'[k].op = "undo" => log'[k].id \notin committed
    <3>1. k \in 1..n /\ log'[k] = log[k] /\ ~Coming(Mine, posts, k)
      BY <2>2, <2>3, <2>4, <1>4, <1>9
    <3>2. Latest(log, k) /\ m.id # log[k].id
      BY <3>1, <2>4, <1>4, <1>5 DEF Latest, n
    <3>3. UndoSent(inFlight, log[k].id) => UndoSent(inFlight', log[k].id)
      BY <3>2 DEF UndoSent
    <3> QED
      BY <3>1, <3>2, <3>3, <2>1
  <2>5. \A x \in committed : \E k \in 1..Len(log') : log'[k].id = x
    BY <2>1, <1>4, <1>5
  <2>6. \A k \in 1..Len(log') : log'[k].op = "draw" /\ log'[k].id \in pending => Coming(Mine, posts', k)
    BY <2>1, <2>2, <2>3, <1>4, <1>9
  <2> QED
    BY <2>4, <2>5, <2>6, <1>1, <1>6 DEF Shown
<1> QED
  BY <1>7, <1>8, <1>11, <1>12, <1>13, <1>14, <1>15, <1>16, <1>17 DEF IndInv

LEMMA CommitStep == ASSUME IndInv, Commit PROVE IndInv'
<1>1. PICK m \in inFlight : CommitEntry(m) /\ inFlight' = inFlight \ {m}
  BY DEF Commit
<1>2. UNCHANGED <<hubVars, stackVars, pageVars, windows>>
  BY DEF Commit
<1>3. CASE m.op = "draw" /\ m.id \in Drawn(log)
  BY <1>1, <1>2, <1>3, DroppedStep DEF CommitEntry
<1>4. CASE ~(m.op = "draw" /\ m.id \in Drawn(log))
  BY <1>1, <1>2, <1>4, AppendedStep DEF CommitEntry
<1> QED
  BY <1>3, <1>4

LEMMA LoseStep == ASSUME IndInv, Lose PROVE IndInv'
<1>1. /\ inFlight' \subseteq inFlight /\ posts' \subseteq posts /\ windows' = windows \cup {"missed"}
      /\ log' = log /\ UNCHANGED <<hubVars, stackVars, pageVars>>
  BY DEF Lose
<1>2. /\ undoStack' = undoStack /\ redoStack' = redoStack /\ used' = used /\ redone' = redone
      /\ undone' = undone /\ committed' = committed /\ pending' = pending /\ userId' = userId
      /\ synced' = synced /\ conn' = conn /\ hub' = hub /\ panicked' = panicked
  BY <1>1 DEF stackVars, pageVars, hubVars
<1>3. Mine' = Mine /\ HubOK' /\ DrawsOnce'
  BY <1>1, <1>2 DEF IndInv, HubOK, DrawsOnce, Mine
<1>4. PageOK' /\ UndoStackDistinct' /\ HeardOnce'
  BY <1>1, <1>2, <1>3 DEF IndInv, PageOK, UndoStackDistinct, HeardOnce
<1>5. \A i : ~Coming(Mine, posts, i) => ~Coming(Mine, posts', i)
  BY <1>1 DEF Coming
<1>6. Stacked' /\ Recoverable'
  BY <1>1, <1>2, <1>3, <1>5 DEF IndInv, Stacked, Recoverable
<1>7. OwnStrokesStay' /\ InOrder' /\ Shown'
  BY <1>1, <1>2 DEF IndInv, OwnStrokesStay, InOrder, Shown
<1> QED
  BY <1>3, <1>4, <1>6, <1>7 DEF IndInv

LEMMA BroadcastStep == ASSUME IndInv, NEW i \in posts, Broadcast(i) PROVE IndInv'
<1> DEFINE m == Announced(i)
           g(c) == [hub[c] EXCEPT !.queue = Append(@, m)]
<1>1. /\ posts' = posts \ {i} /\ log' = log /\ inFlight' = inFlight /\ conn' = conn
      /\ hub' = [c \in Conn |-> IF hub[c].registered /\ hub[c].up /\ ~Full(c) THEN g(c) ELSE hub[c]]
      /\ undoStack' = undoStack /\ redoStack' = redoStack /\ used' = used /\ redone' = redone
      /\ undone' = undone /\ committed' = committed /\ pending' = pending /\ userId' = userId
      /\ synced' = synced /\ windows \subseteq windows'
  BY DEF Broadcast, stackVars, pageVars
<1>2. /\ (\E c \in Conn : hub[c].registered /\ Full(c)) => "missed" \in windows'
      /\ "overtaken" \notin windows' =>
           \A j \in (i + 1)..Len(log) : log[j].id = log[i].id => j \in posts
  BY DEF Broadcast
<1>3. HubOK /\ log \in Seq(Entry) /\ Len(log) \in Nat /\ i \in 1..Len(log) /\ i \in Nat
  BY LogFacts DEF IndInv, PageOK
<1>4. m \in Msg /\ m.type = "entry" /\ m.index = i
  BY <1>3 DEF Msg, Announced
<1>5. panicked' # "broadcast"
  <2>1. ~\E c \in Conn : hub[c].registered /\ hub[c].closed
    BY <1>3 DEF HubOK, Fits
  <2> QED
    BY <2>1, <1>3 DEF HubOK, Broadcast
<1> HIDE DEF m
<1>6. ASSUME NEW c \in Conn, hub[c].up
      PROVE  /\ g(c) \in Connection /\ g(c).up = hub[c].up /\ g(c).registered = hub[c].registered
             /\ g(c).closed = hub[c].closed /\ g(c).sync = hub[c].sync /\ g(c).snapshot = hub[c].snapshot
             /\ g(c).queue = Append(hub[c].queue, m) /\ Fits(g(c), log)
  <2>1. hub[c] \in Connection /\ Fits(hub[c], log)
    BY <1>3 DEF HubOK, Fits
  <2>2. Append(hub[c].queue, m) \in Seq(Msg)
    BY <2>1, <1>4, ConnectionFacts, AppendProperties
  <2>3. /\ g(c) \in Connection /\ g(c).up = hub[c].up /\ g(c).registered = hub[c].registered
        /\ g(c).closed = hub[c].closed /\ g(c).sync = hub[c].sync /\ g(c).snapshot = hub[c].snapshot
        /\ g(c).queue = Append(hub[c].queue, m)
    BY <2>1, <2>2 DEF Connection
  <2> HIDE DEF g
  <2>4. Fits(g(c), log)
    BY <2>1, <2>3, <1>3, <1>4, <1>6, FitsMore
  <2> QED
    BY <2>3, <2>4
<1> HIDE DEF g
<1>7. HubOK'
  <2>1. ASSUME NEW c \in Conn
        PROVE  Fits(hub'[c], log) /\ (hub'[c].up => c = conn) /\ (c > conn => hub'[c] = Unused)
    <3>1. Fits(hub[c], log) /\ (hub[c].up => c = conn) /\ (c > conn => hub[c] = Unused) /\ c \in Nat
      BY <1>3 DEF HubOK, Conn
    <3>2. CASE hub[c].registered /\ hub[c].up /\ ~Full(c)
      <4>1. hub'[c] = g(c)
        BY <3>2, <1>1
      <4> QED
        BY <4>1, <3>1, <3>2, <1>6, UnusedFacts
    <3>3. CASE ~(hub[c].registered /\ hub[c].up /\ ~Full(c))
      <4>1. hub'[c] = hub[c]
        BY <3>3, <1>1
      <4> QED
        BY <4>1, <3>1
    <3> QED
      BY <3>2, <3>3
  <2>2. DOMAIN hub' = Conn
    BY <1>1
  <2> QED
    BY <2>1, <2>2, <1>1, <1>3, <1>5 DEF HubOK
<1>8. PageOK' /\ DrawsOnce' /\ UndoStackDistinct'
  BY <1>1 DEF IndInv, PageOK, DrawsOnce, UndoStackDistinct
<1>9. OwnStrokesStay'
  BY <1>1 DEF IndInv, OwnStrokesStay
<1>10. \A p \in Nat : ~At(Mine.queue, p, i)
  BY <1>3 DEF IndInv, HeardOnce
<1>11. CASE Up /\ ~Full(conn)
  <2>1. conn \in Conn /\ Mine = hub[conn] /\ hub[conn].up /\ hub[conn].registered
    BY <1>3, <1>11, MineFacts DEF Up, HubOK, Fits
  <2>2. PICK h : h = g(conn)
    OBVIOUS
  <2>3. Mine' = h
    BY <2>1, <2>2, <1>1, <1>11, LimitAssumption DEF Mine, Conn
  <2>4. /\ h.up = Mine.up /\ h.sync = Mine.sync /\ h.snapshot = Mine.snapshot
        /\ h.queue = Append(Mine.queue, m)
    BY <2>1, <2>2, <1>6
  <2>5. /\ Mine.queue \in Seq(Msg) /\ Len(Mine.queue) \in Nat /\ DOMAIN Mine.queue = 1..Len(Mine.queue)
    BY <1>3, MineFacts, ConnectionFacts
  <2>6. /\ DOMAIN h.queue = 1..(Len(Mine.queue) + 1) /\ h.queue[Len(Mine.queue) + 1] = m
        /\ \A p \in 1..Len(Mine.queue) : h.queue[p] = Mine.queue[p]
    BY <2>4, <2>5, <1>4, AppendProperties
  <2> DEFINE z == Len(Mine.queue) + 1
  <2>7. z \in Nat /\ At(h.queue, z, i) /\ \A p, j : At(Mine.queue, p, j) => At(h.queue, p, j) /\ p < z
    BY <2>5, <2>6, <1>4 DEF At
  <2>8. \A p, j : At(h.queue, p, j) => At(Mine.queue, p, j) \/ (p = z /\ j = i)
    BY <2>5, <2>6, <1>4 DEF At
  <2> HIDE DEF z
  <2>9. \A j : Coming(h, posts', j) <=> Coming(Mine, posts, j)
    BY <2>7, <2>8, <1>1 DEF Coming
  <2>10. \A j : Ahead(Mine, j) => Ahead(h, j)
    BY <2>4, <2>5, <2>6, <1>4 DEF Ahead
  <2>11. HeardOnce'
    <3> SUFFICES ASSUME NEW p \in Nat, NEW j \in Nat, At(h.queue, p, j)
                 PROVE  /\ j \in 1..Len(log) /\ j \notin posts'
                        /\ \A r \in Nat : At(h.queue, r, j) => r = p
      BY <2>3, <1>1 DEF HeardOnce
    <3>1. CASE At(Mine.queue, p, j)
      <4>1. j # i /\ j \in 1..Len(log) /\ j \notin posts /\ \A r \in Nat : At(Mine.queue, r, j) => r = p
        BY <3>1, <1>10 DEF IndInv, HeardOnce
      <4> QED
        BY <4>1, <2>8, <1>1
    <3>2. CASE p = z /\ j = i
      BY <3>2, <2>8, <1>1, <1>3, <1>10
    <3> QED
      BY <3>1, <3>2, <2>8
  <2>12. Stacked' /\ Recoverable'
    BY <2>3, <2>9, <2>10, <1>1 DEF IndInv, Stacked, Recoverable
  <2>13. InOrder'
    <3> SUFFICES ASSUME "missed" \notin windows, "overtaken" \notin windows, "overtaken" \notin windows',
                        NEW p \in Nat, NEW j \in Nat, At(h.queue, p, j),
                        NEW k \in (j + 1)..Len(log), log[k].id = log[j].id
                 PROVE  k \in posts' \/ \E r \in Nat : r > p /\ At(h.queue, r, k)
      BY <2>3, <1>1 DEF InOrder
    <3>1. CASE At(Mine.queue, p, j)
      <4>1. k \in posts \/ \E r \in Nat : r > p /\ At(Mine.queue, r, k)
        BY <3>1 DEF IndInv, InOrder
      <4>2. CASE k = i
        BY <4>2, <3>1, <2>7
      <4>3. CASE k # i
        BY <4>1, <4>3, <2>7, <1>1
      <4> QED
        BY <4>2, <4>3
    <3>2. CASE p = z /\ j = i
      BY <3>2, <1>1, <1>2, <1>3
    <3> QED
      BY <3>1, <3>2, <2>8
  <2>14. Shown'
    <3> SUFFICES ASSUME Mine.up, synced, windows = {} PROVE Shown'
      BY <2>3, <2>4, <1>1 DEF Shown
    <3> QED
      BY <2>3, <2>9, <1>1 DEF IndInv, Shown
  <2> QED
    BY <1>7, <1>8, <1>9, <2>11, <2>12, <2>13, <2>14 DEF IndInv
<1>12. CASE ~(Up /\ ~Full(conn))
  <2>1. Mine' = Mine
    BY <1>1, <1>3, <1>12, MineFacts DEF Mine, Up
  <2>2. \A j : ~Coming(Mine, posts, j) => ~Coming(Mine, posts', j)
    BY <1>1 DEF Coming
  <2>3. HeardOnce' /\ Stacked' /\ Recoverable'
    BY <2>1, <2>2, <1>1 DEF IndInv, HeardOnce, Stacked, Recoverable
  <2>4. CASE ~Up
    <3>1. ~Mine.up /\ Mine.queue = <<>>
      BY <2>4, <1>3, MineFacts DEF Fits
    <3>2. \A p, j \in Nat : ~At(Mine.queue, p, j)
      BY <3>1, EmptySeq DEF At
    <3>3. InOrder' /\ Shown'
      BY <2>1, <3>1, <3>2 DEF InOrder, Shown
    <3> QED
      BY <3>3, <2>3, <1>7, <1>8, <1>9 DEF IndInv
  <2>5. CASE Up /\ Full(conn)
    <3>1. conn \in Conn /\ hub[conn].registered
      BY <2>5, <1>3, MineFacts DEF Up, HubOK, Fits
    <3>2. "missed" \in windows'
      BY <3>1, <2>5, <1>2
    <3>3. InOrder' /\ Shown'
      BY <3>2 DEF InOrder, Shown
    <3> QED
      BY <3>3, <2>3, <1>7, <1>8, <1>9 DEF IndInv
  <2> QED
    BY <2>4, <2>5, <1>12
<1> QED
  BY <1>11, <1>12

(***************************************************************************)
(* Steps of the browser.                                                   *)
(***************************************************************************)

(* The browser takes the first message of its queue.                        *)
Popped ==
    /\ Up /\ hub[conn].queue # <<>> /\ Pop
    /\ UNCHANGED <<log, posts, conn, panicked>>

LEMMA PoppedHub ==
    ASSUME IndInv, Popped
    PROVE  /\ log' = log /\ posts' = posts /\ HubOK' /\ DrawsOnce'
           /\ Mine.up /\ Mine'.up /\ Mine.queue \in Seq(Msg) /\ Mine.queue # <<>>
           /\ Mine'.queue = Tail(Mine.queue) /\ Mine'.sync = Mine.sync /\ Mine'.snapshot = Mine.snapshot
           /\ Message = Head(Mine.queue) /\ Behind = Mine'.queue
<1>1. HubOK /\ conn \in Conn /\ Mine = hub[conn] /\ hub[conn].up
  BY MineFacts DEF IndInv, Popped, Up
<1>2. PICK c \in Conn : c = conn
  BY <1>1
<1>3. hub[c] \in Connection /\ Fits(hub[c], log)
  BY <1>1 DEF HubOK, Fits
<1>4. hub[c].queue \in Seq(Msg) /\ hub[c].queue # <<>>
  BY <1>2, <1>3, ConnectionFacts DEF Popped
<1> DEFINE h == [hub[c] EXCEPT !.queue = Tail(hub[c].queue)]
<1>5. hub' = [hub EXCEPT ![c] = h]
  BY <1>1, <1>2 DEF Popped, Pop, Behind, HubOK
<1>6. Tail(hub[c].queue) \in Seq(Msg)
  BY <1>4, HeadTailProperties
<1>7. /\ h \in Connection /\ h.up = hub[c].up /\ h.queue = Tail(hub[c].queue)
      /\ h.registered = hub[c].registered /\ h.closed = hub[c].closed
      /\ h.sync = hub[c].sync /\ h.snapshot = hub[c].snapshot
  BY <1>3, <1>6 DEF Connection
<1> HIDE DEF h
<1>8. Fits(h, log)
  <2>1. /\ (h.registered => ~h.closed) /\ (h.up => h.registered) /\ h.up
        /\ (h.sync = "send" => Copy(h.snapshot, log)) /\ log \in Seq(Entry)
    BY <1>1, <1>2, <1>3, <1>7 DEF Fits, HubOK
  <2> QED
    BY <2>1, <1>3, <1>4, <1>7, FitsLess
<1>9. log' = log /\ posts' = posts /\ conn' = conn /\ panicked' # "broadcast"
  BY <1>1 DEF Popped, HubOK
<1>10. HubOK'
  <2>1. hub[c] # Unused
    BY <1>1, <1>2, UnusedFacts
  <2> QED
    BY <2>1, <1>1, <1>2, <1>5, <1>8, <1>9, HubStep
<1>11. Mine' = h
  <2>1. Mine' = IF c = conn THEN h ELSE Mine
    BY <1>1, <1>5, <1>9, MineStep
  <2> QED
    BY <2>1, <1>2
<1>12. DrawsOnce'
  BY <1>9 DEF IndInv, DrawsOnce
<1> QED
  BY <1>1, <1>2, <1>4, <1>7, <1>9, <1>10, <1>11, <1>12 DEF Message, Behind

LEMMA PoppedView ==
    ASSUME IndInv, Popped
    PROVE  /\ \A p, i \in Nat : At(Mine'.queue, p, i) => p >= 1 /\ At(Mine.queue, p + 1, i)
           /\ \A p, i \in Nat : At(Mine.queue, p, i) => p = 1 \/ (p > 1 /\ At(Mine'.queue, p - 1, i))
           /\ \A i : At(Mine.queue, 1, i) <=> Message.type = "entry" /\ Message.index = i
           /\ \A i : Ahead(Mine, i) => Ahead(Mine', i)
<1>1. /\ Mine.queue \in Seq(Msg) /\ Mine.queue # <<>>
      /\ Mine'.queue = Tail(Mine.queue) /\ Mine'.sync = Mine.sync /\ Mine'.snapshot = Mine.snapshot
      /\ Message = Head(Mine.queue)
  BY PoppedHub
<1>2. PICK q, t : q = Mine.queue /\ t = Tail(q)
  OBVIOUS
<1>3. q \in Seq(Msg) /\ q # <<>>
  BY <1>1, <1>2
<1>4. Len(q) \in Nat /\ DOMAIN q = 1..Len(q) /\ Len(q) >= 1
  BY <1>3, LenProperties, EmptySeq
<1>5. /\ Len(t) = Len(q) - 1 /\ DOMAIN t = 1..(Len(q) - 1)
      /\ \A p \in 1..(Len(q) - 1) : t[p] = q[p + 1]
  <2>1. t \in Seq(Msg) /\ Len(t) = Len(q) - 1 /\ \A p \in 1..Len(t) : t[p] = q[p + 1]
    BY <1>2, <1>3, HeadTailProperties
  <2> QED
    BY <2>1, LenProperties
<1>6. Head(q) = q[1]
  BY <1>3
<1>7. \A p, i \in Nat : At(t, p, i) => p >= 1 /\ At(q, p + 1, i)
  BY <1>4, <1>5 DEF At
<1>8. \A p, i \in Nat : At(q, p, i) => p = 1 \/ (p > 1 /\ At(t, p - 1, i))
  <2> SUFFICES ASSUME NEW p \in Nat, NEW i \in Nat, At(q, p, i), p # 1
               PROVE  p > 1 /\ At(t, p - 1, i)
    OBVIOUS
  <2>1. p \in 1..Len(q) /\ p > 1
    BY <1>4 DEF At
  <2>2. p - 1 \in 1..(Len(q) - 1) /\ (p - 1) + 1 = p
    BY <2>1, <1>4
  <2>3. t[p - 1] = q[p]
    BY <2>2, <1>5
  <2> QED
    BY <2>1, <2>2, <2>3, <1>5 DEF At
<1>9. \A i : At(q, 1, i) <=> Head(q).type = "entry" /\ Head(q).index = i
  BY <1>4, <1>6 DEF At
<1>10. \A i : Ahead(Mine, i) => Ahead(Mine', i)
  <2> SUFFICES ASSUME NEW i, Ahead(Mine, i) PROVE Ahead(Mine', i)
    OBVIOUS
  <2>1. \A p \in DOMAIN t : p + 1 \in DOMAIN q /\ t[p] = q[p + 1]
    BY <1>4, <1>5
  <2>2. \A p \in DOMAIN q : q[p].type = "sync" => i <= Len(q[p].entries)
    BY <1>2 DEF Ahead
  <2>3. \A p \in DOMAIN t : t[p].type = "sync" => i <= Len(t[p].entries)
    BY <2>1, <2>2
  <2> QED
    BY <2>3, <1>1, <1>2 DEF Ahead
<1> QED
  BY <1>1, <1>2, <1>7, <1>8, <1>9, <1>10

LEMMA PoppedQueue ==
    ASSUME IndInv, Popped
    PROVE  /\ HeardOnce' /\ (windows \cap {"missed", "overtaken"} \subseteq windows' => InOrder')
           /\ \A i \in Nat : Coming(Mine', posts, i) => Coming(Mine, posts, i)
           /\ \A i \in Nat : Coming(Mine, posts, i) =>
                Coming(Mine', posts, i) \/ (Message.type = "entry" /\ Message.index = i)
           /\ Message.type = "entry" =>
                /\ Message.index \in 1..Len(log) /\ Coming(Mine, posts, Message.index)
                /\ ~Coming(Mine', posts, Message.index)
<1>1. log' = log /\ posts' = posts /\ Mine.queue \in Seq(Msg) /\ Mine.queue # <<>> /\ Message = Head(Mine.queue)
  BY PoppedHub
<1>2. /\ \A p, i \in Nat : At(Mine'.queue, p, i) => p >= 1 /\ At(Mine.queue, p + 1, i)
      /\ \A p, i \in Nat : At(Mine.queue, p, i) => p = 1 \/ (p > 1 /\ At(Mine'.queue, p - 1, i))
      /\ \A i : At(Mine.queue, 1, i) <=> Message.type = "entry" /\ Message.index = i
  BY PoppedView
<1>3. \A p, i \in Nat : At(Mine.queue, p, i) =>
        /\ i \in 1..Len(log) /\ i \notin posts
        /\ \A r \in Nat : At(Mine.queue, r, i) => r = p
  BY DEF IndInv, HeardOnce
<1>4. HeardOnce'
  <2> SUFFICES ASSUME NEW p \in Nat, NEW i \in Nat, At(Mine'.queue, p, i)
               PROVE  /\ i \in 1..Len(log) /\ i \notin posts
                      /\ \A r \in Nat : At(Mine'.queue, r, i) => r = p
    BY <1>1 DEF HeardOnce
  <2>1. p + 1 \in Nat /\ At(Mine.queue, p + 1, i)
    BY <1>2
  <2>2. ASSUME NEW r \in Nat, At(Mine'.queue, r, i) PROVE r = p
    <3>1. r + 1 \in Nat /\ At(Mine.queue, r + 1, i)
      BY <2>2, <1>2
    <3>2. r + 1 = p + 1
      BY <2>1, <3>1, <1>3
    <3> QED
      BY <3>2
  <2> QED
    BY <2>1, <2>2, <1>3
<1>5. ASSUME windows \cap {"missed", "overtaken"} \subseteq windows' PROVE InOrder'
  <2> SUFFICES ASSUME "missed" \notin windows, "overtaken" \notin windows,
                      NEW p \in Nat, NEW i \in Nat, At(Mine'.queue, p, i),
                      NEW k \in (i + 1)..Len(log), log[k].id = log[i].id
               PROVE  k \in posts \/ \E r \in Nat : r > p /\ At(Mine'.queue, r, k)
    BY <1>1, <1>5 DEF InOrder
  <2>1. p + 1 \in Nat /\ p >= 1 /\ At(Mine.queue, p + 1, i) /\ k \in Nat
    BY <1>2
  <2>2. k \in posts \/ \E r \in Nat : r > p + 1 /\ At(Mine.queue, r, k)
    BY <2>1 DEF IndInv, InOrder
  <2>3. ASSUME NEW r \in Nat, r > p + 1, At(Mine.queue, r, k)
        PROVE  r - 1 \in Nat /\ r - 1 > p /\ At(Mine'.queue, r - 1, k)
    BY <2>1, <2>3, <1>2
  <2> QED
    BY <2>2, <2>3
<1>6. \A i \in Nat : Coming(Mine', posts, i) => Coming(Mine, posts, i)
  <2> SUFFICES ASSUME NEW i \in Nat, Coming(Mine', posts, i) PROVE Coming(Mine, posts, i)
    OBVIOUS
  <2>1. CASE i \in posts
    BY <2>1 DEF Coming
  <2>2. CASE \E p \in Nat : At(Mine'.queue, p, i)
    <3>1. PICK p \in Nat : At(Mine'.queue, p, i)
      BY <2>2
    <3>2. p + 1 \in Nat /\ At(Mine.queue, p + 1, i)
      BY <3>1, <1>2
    <3> QED
      BY <3>2 DEF Coming
  <2> QED
    BY <2>1, <2>2 DEF Coming
<1>7. \A i \in Nat : Coming(Mine, posts, i) =>
        Coming(Mine', posts, i) \/ (Message.type = "entry" /\ Message.index = i)
  <2> SUFFICES ASSUME NEW i \in Nat, Coming(Mine, posts, i), ~At(Mine.queue, 1, i)
               PROVE  Coming(Mine', posts, i)
    BY <1>2
  <2>1. CASE i \in posts
    BY <2>1 DEF Coming
  <2>2. CASE \E p \in Nat : At(Mine.queue, p, i)
    <3>1. PICK p \in Nat : At(Mine.queue, p, i)
      BY <2>2
    <3>2. p > 1 /\ At(Mine'.queue, p - 1, i)
      BY <3>1, <1>2
    <3>3. p - 1 \in Nat
      BY <3>2
    <3> QED
      BY <3>2, <3>3 DEF Coming
  <2> QED
    BY <2>1, <2>2 DEF Coming
<1>8. ASSUME Message.type = "entry"
      PROVE  /\ Message.index \in 1..Len(log) /\ Coming(Mine, posts, Message.index)
             /\ ~Coming(Mine', posts, Message.index)
  <2>1. PICK i : i = Message.index
    OBVIOUS
  <2>2. At(Mine.queue, 1, i)
    BY <2>1, <1>2, <1>8
  <2>3. Message \in Msg
    BY <1>1, HeadTailProperties
  <2>4. i \in Nat
    BY <2>1, <2>3, <1>8, MsgFacts
  <2>5. i \in 1..Len(log) /\ i \notin posts /\ \A r \in Nat : At(Mine.queue, r, i) => r = 1
    BY <2>2, <2>4, <1>3
  <2>6. Coming(Mine, posts, i)
    BY <2>2 DEF Coming
  <2>7. ~Coming(Mine', posts, i)
    <3> SUFFICES ASSUME NEW p \in Nat, At(Mine'.queue, p, i) PROVE FALSE
      BY <2>5 DEF Coming
    <3>1. p + 1 \in Nat /\ p >= 1 /\ At(Mine.queue, p + 1, i)
      BY <2>4, <1>2
    <3>2. p + 1 = 1
      BY <3>1, <2>5
    <3> QED
      BY <3>1, <3>2
  <2> QED
    BY <2>1, <2>5, <2>6, <2>7
<1> QED
  BY <1>4, <1>5, <1>6, <1>7, <1>8

LEMMA UserAssignedStep ==
    ASSUME IndInv, Popped, Message.type = "user", UserAssigned
    PROVE  IndInv'
<1>1. /\ inFlight' = inFlight /\ userId' = Message.id
      /\ undoStack' = undoStack /\ redoStack' = redoStack /\ used' = used /\ redone' = redone
      /\ undone' = undone /\ committed' = committed /\ pending' = pending
      /\ synced' = synced /\ windows' = windows
  BY DEF UserAssigned, stackVars
<1>2. log' = log /\ posts' = posts /\ HubOK' /\ DrawsOnce' /\ Mine.up /\ Mine'.up
  BY PoppedHub
<1>3. HeardOnce' /\ InOrder'
  BY <1>1, PoppedQueue
<1>4. Len(log) \in Nat
  BY LogFacts DEF IndInv
<1>5. \A i \in 1..Len(log) : Coming(Mine', posts, i) <=> Coming(Mine, posts, i)
  BY <1>4, PoppedQueue
<1>6. \A i : Ahead(Mine, i) => Ahead(Mine', i)
  BY PoppedView
<1>7. PageOK'
  <2>1. Message.id \in Nat
    <3>1. Message \in Msg
      BY PoppedHub, HeadTailProperties
    <3> QED
      BY <3>1, MsgFacts
  <2> QED
    BY <2>1, <1>1, <1>2 DEF IndInv, PageOK
<1>8. Stacked' /\ UndoStackDistinct' /\ OwnStrokesStay'
  BY <1>1, <1>2, <1>5 DEF IndInv, Stacked, UndoStackDistinct, OwnStrokesStay
<1>9. Recoverable'
  BY <1>1, <1>2, <1>5, <1>6 DEF IndInv, Recoverable
<1>10. Shown'
  <2> SUFFICES ASSUME synced, windows = {} PROVE Shown'
    BY <1>1 DEF Shown
  <2> QED
    BY <1>1, <1>2, <1>5 DEF IndInv, Shown
<1> QED
  BY <1>2, <1>3, <1>7, <1>8, <1>9, <1>10 DEF IndInv

(* What the browser has not yet heard of, after an entry.                   *)
LEMMA Heard ==
    ASSUME IndInv, Popped, Message.type = "entry", NEW i, i = Message.index
    PROVE  /\ i \in 1..Len(log) /\ i \in Nat /\ Len(log) \in Nat
           /\ log[i] \in Entry /\ log[i].id \in used /\ log[i].id \in Stroke
           /\ (log[i].op = "undo" => log[i].id \in undone)
           /\ ~Coming(Mine', posts, i) /\ Coming(Mine, posts, i)
           /\ \A k \in 1..Len(log) : k # i => (Coming(Mine', posts, k) <=> Coming(Mine, posts, k))
           /\ windows = {} =>
                \A k \in 1..Len(log) :
                    k # i /\ ~Coming(Mine', posts, k) /\ Latest(log, k) => log[k].id # log[i].id
<1>1. /\ Len(log) \in Nat
      /\ \A k \in 1..Len(log) : log[k] \in Entry /\ log[k].id \in Stroke
  BY LogFacts DEF IndInv
<1>2. /\ i \in 1..Len(log) /\ i \in Nat /\ ~Coming(Mine', posts, i) /\ Coming(Mine, posts, i)
  BY <1>1, PoppedQueue
<1>3. \A k \in 1..Len(log) : k # i => (Coming(Mine', posts, k) <=> Coming(Mine, posts, k))
  BY <1>1, PoppedQueue
<1>4. log[i].id \in used /\ (log[i].op = "undo" => log[i].id \in undone)
  BY <1>2 DEF IndInv, PageOK, Known
<1>5. ASSUME windows = {}, NEW k \in 1..Len(log), k # i, ~Coming(Mine', posts, k), Latest(log, k),
             log[k].id = log[i].id
      PROVE  FALSE
  <2>1. CASE k < i
    BY <2>1, <1>1, <1>2, <1>5 DEF Latest
  <2>2. CASE k > i
    <3>1. At(Mine.queue, 1, i) /\ k \in (i + 1)..Len(log)
      BY <2>2, <1>1, <1>2, PoppedView
    <3>2. k \in posts \/ \E r \in Nat : r > 1 /\ At(Mine.queue, r, k)
      BY <3>1, <1>2, <1>5 DEF IndInv, InOrder
    <3>3. Coming(Mine, posts, k)
      BY <3>2 DEF Coming
    <3> QED
      BY <3>3, <1>3, <1>5
  <2> QED
    BY <2>1, <2>2, <1>1, <1>2, <1>5
<1> QED
  BY <1>1, <1>2, <1>3, <1>4, <1>5

LEMMA StrokeCommittedStep ==
    ASSUME IndInv, Popped, Message.type = "entry", StrokeCommitted(log[Message.index])
    PROVE  IndInv'
<1>1. PICK i : i = Message.index
  OBVIOUS
<1>2. PICK s : s = log[i].id
  OBVIOUS
<1>3. /\ log[i].op = "draw" /\ inFlight' = inFlight /\ userId' = userId
      /\ used' = used /\ redone' = redone /\ undone' = undone
      /\ committed' = committed \cup {s} /\ pending' = pending \ {s}
      /\ synced' = synced /\ windows' = windows
      /\ \/ undoStack' = Append(undoStack, s) /\ redoStack' = <<>>
         \/ undoStack' = undoStack /\ redoStack' = redoStack
  BY <1>1, <1>2 DEF StrokeCommitted
<1>4. /\ log' = log /\ posts' = posts /\ HubOK' /\ DrawsOnce' /\ Mine.up /\ Mine'.up
  BY PoppedHub
<1>5. HeardOnce' /\ InOrder'
  BY <1>3, PoppedQueue
<1>6. /\ i \in 1..Len(log) /\ Len(log) \in Nat /\ s \in used /\ s \in Stroke
      /\ ~Coming(Mine', posts, i) /\ Coming(Mine, posts, i)
      /\ \A k \in 1..Len(log) : k # i => (Coming(Mine', posts, k) <=> Coming(Mine, posts, k))
      /\ windows = {} =>
           \A k \in 1..Len(log) :
               k # i /\ ~Coming(Mine', posts, k) /\ Latest(log, k) => log[k].id # s
  BY <1>1, <1>2, Heard
<1>7. \A k \in 1..Len(log) : Ahead(Mine, k) => Ahead(Mine', k)
  BY PoppedView
<1>8. \A k \in 1..Len(log) : ~Coming(Mine, posts, k) => ~Coming(Mine', posts, k)
  BY <1>6
<1>9. DrawnAt(log, i, s)
  BY <1>2, <1>3, <1>6 DEF DrawnAt
<1>10. PageOK
  BY DEF IndInv
<1>11. undoStack \in Seq(Stroke) /\ Len(undoStack) \in Nat /\ DOMAIN undoStack = 1..Len(undoStack)
  BY <1>10, StackFacts
<1>12. PICK n \in Nat :
         /\ undoStack' \in Seq(Stroke) /\ redoStack' \in Seq(Stroke)
         /\ Len(undoStack') = n /\ DOMAIN undoStack' = 1..n
         /\ \A k \in 1..n : \/ k \in 1..Len(undoStack) /\ undoStack'[k] = undoStack[k]
                            \/ k = Len(undoStack) + 1 /\ undoStack'[k] = s
  <2>1. CASE undoStack' = Append(undoStack, s) /\ redoStack' = <<>>
    <3>1. /\ undoStack' \in Seq(Stroke) /\ Len(undoStack') = Len(undoStack) + 1
          /\ undoStack'[Len(undoStack) + 1] = s
          /\ \A k \in 1..Len(undoStack) : undoStack'[k] = undoStack[k]
          /\ DOMAIN undoStack' = 1..(Len(undoStack) + 1)
      BY <2>1, <1>6, <1>11, AppendProperties
    <3>2. Len(undoStack) + 1 \in Nat /\ redoStack' \in Seq(Stroke)
      BY <2>1, <1>11
    <3> QED
      BY <3>1, <3>2, <1>11
  <2>2. CASE undoStack' = undoStack /\ redoStack' = redoStack
    BY <2>2, <1>10, <1>11 DEF PageOK
  <2> QED
    BY <2>1, <2>2, <1>3
<1>13. PageOK'
  <2>1. \A k \in 1..Len(undoStack') : undoStack'[k] \in used
    BY <1>6, <1>10, <1>12 DEF PageOK
  <2> QED
    BY <2>1, <1>3, <1>4, <1>6, <1>10, <1>12 DEF PageOK
<1>14. Stacked'
  <2> SUFFICES ASSUME NEW k \in 1..n, undoStack'[k] \notin redone
               PROVE  \E j \in 1..Len(log) : DrawnAt(log, j, undoStack'[k]) /\ ~Coming(Mine', posts, j)
    BY <1>3, <1>4, <1>12 DEF Stacked
  <2>1. CASE undoStack'[k] = s
    BY <2>1, <1>6, <1>9
  <2>2. CASE k \in 1..Len(undoStack) /\ undoStack'[k] = undoStack[k]
    BY <2>2, <1>8 DEF IndInv, Stacked
  <2> QED
    BY <2>1, <2>2, <1>12
<1>15. UndoStackDistinct'
  <2>1. \A k \in 1..Len(undoStack) : undoStack[k] = s => s \in redone
    <3> SUFFICES ASSUME NEW k \in 1..Len(undoStack), undoStack[k] = s, s \notin redone PROVE FALSE
      OBVIOUS
    <3>1. PICK j \in 1..Len(log) : DrawnAt(log, j, s) /\ ~Coming(Mine, posts, j)
      BY DEF IndInv, Stacked
    <3>2. j = i
      BY <3>1, <1>6, <1>9 DEF IndInv, DrawsOnce
    <3> QED
      BY <3>1, <3>2, <1>6
  <2> SUFFICES ASSUME NEW j \in 1..n, NEW k \in 1..n, undoStack'[j] = undoStack'[k],
                      undoStack'[j] \notin redone
               PROVE  j = k
    BY <1>3, <1>12 DEF UndoStackDistinct
  <2>2. CASE undoStack'[j] = s
    BY <2>1, <2>2, <1>12
  <2>3. CASE undoStack'[j] # s
    <3>1. /\ j \in 1..Len(undoStack) /\ undoStack'[j] = undoStack[j]
          /\ k \in 1..Len(undoStack) /\ undoStack'[k] = undoStack[k]
      BY <2>3, <1>12
    <3> QED
      BY <3>1, <1>11 DEF IndInv, UndoStackDistinct
  <2> QED
    BY <2>2, <2>3
<1>16. Recoverable'
  <2> SUFFICES ASSUME NEW x \in used, x \notin pending', x \notin undone
               PROVE  \E j \in 1..Len(log) :
                        DrawnAt(log, j, x) /\ (~Coming(Mine', posts, j) \/ Ahead(Mine', j))
    BY <1>3, <1>4 DEF Recoverable
  <2>1. CASE x = s
    BY <2>1, <1>6, <1>9
  <2>2. CASE x # s
    <3>1. x \notin pending
      BY <2>2, <1>3
    <3> QED
      BY <3>1, <1>7, <1>8 DEF IndInv, Recoverable
  <2> QED
    BY <2>1, <2>2
<1>17. OwnStrokesStay'
  BY <1>3 DEF IndInv, OwnStrokesStay
<1>18. Shown'
  <2> SUFFICES ASSUME synced, windows = {} PROVE Shown'
    BY <1>3 DEF Shown
  <2>1. /\ \A k \in 1..Len(log) : ~Coming(Mine, posts, k) /\ Latest(log, k) =>
             /\ log[k].op = "draw" => log[k].id \in committed \/ UndoSent(inFlight, log[k].id)
             /\ log[k].op = "undo" => log[k].id \notin committed
        /\ \A x \in committed : \E k \in 1..Len(log) : log[k].id = x
        /\ \A k \in 1..Len(log) : log[k].op = "draw" /\ log[k].id \in pending => Coming(Mine, posts, k)
    BY <1>4 DEF IndInv, Shown
  <2>2. ASSUME NEW k \in 1..Len(log), ~Coming(Mine', posts, k), Latest(log, k)
        PROVE  /\ log[k].op = "draw" => log[k].id \in committed' \/ UndoSent(inFlight, log[k].id)
               /\ log[k].op = "undo" => log[k].id \notin committed'
    <3>1. CASE k = i
      BY <3>1, <1>2, <1>3
    <3>2. CASE k # i
      BY <3>2, <2>1, <2>2, <1>3, <1>6
    <3> QED
      BY <3>1, <3>2
  <2>3. \A x \in committed' : \E k \in 1..Len(log) : log[k].id = x
    BY <2>1, <1>2, <1>3, <1>6
  <2>4. \A k \in 1..Len(log) : log[k].op = "draw" /\ log[k].id \in pending' => Coming(Mine', posts, k)
    BY <2>1, <1>2, <1>3, <1>6
  <2> QED
    BY <2>2, <2>3, <2>4, <1>3, <1>4 DEF Shown
<1> QED
  BY <1>4, <1>5, <1>13, <1>14, <1>15, <1>16, <1>17, <1>18 DEF IndInv

LEMMA UndoCompensationStep ==
    ASSUME IndInv, Popped, Message.type = "entry", UndoCompensation(log[Message.index])
    PROVE  IndInv'
<1>1. PICK i : i = Message.index
  OBVIOUS
<1>2. PICK s : s = log[i].id
  OBVIOUS
<1>3. /\ log[i].op = "undo" /\ inFlight' = inFlight /\ userId' = userId
      /\ undoStack' = undoStack /\ redoStack' = redoStack
      /\ used' = used /\ redone' = redone /\ undone' = undone
      /\ committed' = committed \ {s} /\ pending' \subseteq pending /\ pending \subseteq pending' \cup {s}
      /\ synced' = synced /\ windows' = windows
  BY <1>1, <1>2 DEF UndoCompensation, stackVars
<1>4. /\ log' = log /\ posts' = posts /\ HubOK' /\ DrawsOnce' /\ Mine.up /\ Mine'.up
  BY PoppedHub
<1>5. HeardOnce' /\ InOrder'
  BY <1>3, PoppedQueue
<1>6. /\ i \in 1..Len(log) /\ Len(log) \in Nat /\ s \in undone
      /\ ~Coming(Mine', posts, i) /\ Coming(Mine, posts, i)
      /\ \A k \in 1..Len(log) : k # i => (Coming(Mine', posts, k) <=> Coming(Mine, posts, k))
      /\ windows = {} =>
           \A k \in 1..Len(log) :
               k # i /\ ~Coming(Mine', posts, k) /\ Latest(log, k) => log[k].id # s
  BY <1>1, <1>2, <1>3, Heard
<1>7. \A k \in 1..Len(log) : Ahead(Mine, k) => Ahead(Mine', k)
  BY PoppedView
<1>8. \A k \in 1..Len(log) : ~Coming(Mine, posts, k) => ~Coming(Mine', posts, k)
  BY <1>6
<1>9. PageOK'
  BY <1>3, <1>4 DEF IndInv, PageOK
<1>10. Stacked' /\ UndoStackDistinct'
  BY <1>3, <1>4, <1>8 DEF IndInv, Stacked, UndoStackDistinct
<1>11. Recoverable'
  BY <1>3, <1>4, <1>6, <1>7, <1>8 DEF IndInv, Recoverable
<1>12. OwnStrokesStay'
  BY <1>3, <1>6 DEF IndInv, OwnStrokesStay
<1>13. Shown'
  <2> SUFFICES ASSUME synced, windows = {} PROVE Shown'
    BY <1>3 DEF Shown
  <2>1. /\ \A k \in 1..Len(log) : ~Coming(Mine, posts, k) /\ Latest(log, k) =>
             /\ log[k].op = "draw" => log[k].id \in committed \/ UndoSent(inFlight, log[k].id)
             /\ log[k].op = "undo" => log[k].id \notin committed
        /\ \A x \in committed : \E k \in 1..Len(log) : log[k].id = x
        /\ \A k \in 1..Len(log) : log[k].op = "draw" /\ log[k].id \in pending => Coming(Mine, posts, k)
    BY <1>4 DEF IndInv, Shown
  <2>2. ASSUME NEW k \in 1..Len(log), ~Coming(Mine', posts, k), Latest(log, k)
        PROVE  /\ log[k].op = "draw" => log[k].id \in committed' \/ UndoSent(inFlight, log[k].id)
               /\ log[k].op = "undo" => log[k].id \notin committed'
    <3>1. CASE k = i
      BY <3>1, <1>2, <1>3
    <3>2. CASE k # i
      BY <3>2, <2>1, <2>2, <1>3, <1>6
    <3> QED
      BY <3>1, <3>2
  <2>3. \A x \in committed' : \E k \in 1..Len(log) : log[k].id = x
    BY <2>1, <1>3
  <2>4. \A k \in 1..Len(log) : log[k].op = "draw" /\ log[k].id \in pending' => Coming(Mine', posts, k)
    BY <2>1, <1>3, <1>6
  <2> QED
    BY <2>2, <2>3, <2>4, <1>3, <1>4 DEF Shown
<1> QED
  BY <1>4, <1>5, <1>9, <1>10, <1>11, <1>12, <1>13 DEF IndInv

(* What a replay leaves is what was drawn and not undone after.             *)
LEMMA ReplayFacts ==
    ASSUME NEW E \in Seq(Entry), NEW x
    PROVE  /\ x \in Replay(E) <=>
                \E j \in 1..Len(E) : E[j].op = "draw" /\ E[j].id = x /\ Latest(E, j)
           /\ x \in Drawn(E) <=> \E j \in 1..Len(E) : E[j].op = "draw" /\ E[j].id = x
<1>1. DOMAIN E = 1..Len(E)
  BY LenProperties
<1>2. x \in Drawn(E) <=> \E j \in 1..Len(E) : E[j].op = "draw" /\ E[j].id = x
  BY <1>1 DEF Drawn
<1>3. \A j : Latest(E, j) <=> \A l \in (j + 1)..Len(E) : E[l].id # E[j].id
  BY DEF Latest
<1>4. x \in Replay(E) <=> \E j \in 1..Len(E) : E[j].op = "draw" /\ E[j].id = x /\ Latest(E, j)
  BY <1>1, <1>3 DEF Replay
<1> QED
  BY <1>2, <1>4

(* The sync that the browser takes from its queue is its only one.          *)
LEMMA SyncFacts ==
    ASSUME IndInv, Popped, Message.type = "sync", NEW E, E = Message.entries
    PROVE  /\ E \in Seq(Entry) /\ Len(E) \in Nat /\ Len(E) <= Len(log)
           /\ \A k \in 1..Len(E) : E[k] = log[k]
           /\ \A i \in Nat : Ahead(Mine', i) /\ (Ahead(Mine, i) => i <= Len(E))
<1>1. /\ Mine.queue \in Seq(Msg) /\ Mine.queue # <<>> /\ Mine'.queue = Tail(Mine.queue)
      /\ Mine'.sync = Mine.sync /\ Message = Head(Mine.queue)
  BY PoppedHub
<1>2. PICK q, t : q = Mine.queue /\ t = Tail(q)
  OBVIOUS
<1>3. q \in Seq(Msg) /\ q # <<>>
  BY <1>1, <1>2
<1>4. Len(q) \in Nat /\ DOMAIN q = 1..Len(q) /\ Len(q) >= 1 /\ 1 \in DOMAIN q
  BY <1>3, LenProperties, EmptySeq
<1>5. q[1] = Message /\ Message \in Msg
  BY <1>1, <1>2, <1>3, <1>4, HeadTailProperties
<1>6. /\ Mine.sync = "done" /\ Copy(E, log)
      /\ \A r \in DOMAIN q : q[r].type = "sync" => r = 1
  <2>1. Fits(Mine, log)
    BY MineFacts DEF IndInv
  <2> QED
    BY <2>1, <1>2, <1>4, <1>5 DEF Fits
<1>7. E \in Seq(Entry)
  BY <1>5, MsgFacts
<1>8. \A p \in DOMAIN t : t[p].type # "sync"
  <2>1. t \in Seq(Msg) /\ Len(t) = Len(q) - 1 /\ \A p \in 1..Len(t) : t[p] = q[p + 1]
    BY <1>2, <1>3, HeadTailProperties
  <2>2. DOMAIN t = 1..Len(t)
    BY <2>1, LenProperties
  <2>3. \A p \in DOMAIN t : p + 1 \in DOMAIN q /\ p + 1 # 1 /\ t[p] = q[p + 1]
    BY <2>1, <2>2, <1>4
  <2> QED
    BY <2>3, <1>6
<1>9. \A i \in Nat : Ahead(Mine', i)
  BY <1>1, <1>2, <1>6, <1>8 DEF Ahead
<1>10. \A i \in Nat : Ahead(Mine, i) => i <= Len(E)
  BY <1>2, <1>4, <1>5 DEF Ahead
<1>11. Len(E) \in Nat /\ Len(log) \in Nat
  BY <1>7, LenProperties, LogFacts DEF IndInv
<1> QED
  BY <1>6, <1>7, <1>9, <1>10, <1>11 DEF Copy

LEMMA CanvasSyncedStep ==
    ASSUME IndInv, Popped, Message.type = "sync", CanvasSynced(Message.entries)
    PROVE  IndInv'
<1>1. PICK E : E = Message.entries
  OBVIOUS
<1> DEFINE queued == {i \in DOMAIN log : Announced(i) \in ToSet(Behind)}
<1>2. /\ committed' = Replay(E) /\ pending' = pending \ Drawn(E) /\ synced' = TRUE
      /\ inFlight' = inFlight \cup {Draw(s, userId) : s \in pending' \cap Stroke}
      /\ windows \cap {"missed", "overtaken"} \subseteq windows' \/ queued = {}
      /\ "stale" \notin windows' => (Len(E) + 1)..Len(log) \subseteq posts \cup queued
      /\ undoStack' = undoStack /\ redoStack' = redoStack /\ used' = used /\ redone' = redone
      /\ undone' = undone /\ userId' = userId
  BY <1>1 DEF CanvasSynced, Kept, stackVars
<1>3. /\ log' = log /\ posts' = posts /\ HubOK' /\ DrawsOnce' /\ Mine.up /\ Mine'.up
      /\ Behind = Mine'.queue
  BY PoppedHub
<1>4. /\ E \in Seq(Entry) /\ Len(E) \in Nat /\ Len(E) <= Len(log)
      /\ \A k \in 1..Len(E) : E[k] = log[k]
      /\ \A i \in Nat : Ahead(Mine', i) /\ (Ahead(Mine, i) => i <= Len(E))
  BY <1>1, SyncFacts
<1>5. /\ Len(log) \in Nat /\ DOMAIN log = 1..Len(log)
      /\ \A k \in 1..Len(log) : log[k] \in Entry /\ log[k].op \in {"draw", "undo"} /\ log[k].id \in Stroke
  BY LogFacts DEF IndInv
<1>6. \A i \in 1..Len(log) : Coming(Mine', posts, i) <=> Coming(Mine, posts, i)
  BY <1>5, PoppedQueue
<1>7. \A i \in 1..Len(log) : i \in queued <=> \E p \in Nat : At(Mine'.queue, p, i)
  <2>1. /\ Mine'.queue \in Seq(Msg) /\ DOMAIN Mine'.queue = 1..Len(Mine'.queue)
        /\ \A p \in 1..Len(Mine'.queue) : Mine'.queue[p] \in Msg
    <3>1. Mine'.queue \in Seq(Msg)
      BY PoppedHub, HeadTailProperties
    <3> QED
      BY <3>1, LenProperties, ElementOfSeq
  <2>2. PICK t : t = Mine'.queue
    OBVIOUS
  <2>3. \A i \in 1..Len(log) : i \in queued <=> \E p \in 1..Len(t) : t[p] = Announced(i)
    BY <2>1, <2>2, <1>3, <1>5 DEF ToSet
  <2>4. \A n \in Msg : \A i \in Nat : n = Announced(i) <=> n.type = "entry" /\ n.index = i
    BY DEF Msg, Announced
  <2>5. Len(t) \in Nat
    BY <2>1, <2>2, LenProperties
  <2>6. \A i \in 1..Len(log) :
          (\E p \in 1..Len(t) : t[p] = Announced(i)) <=> \E p \in Nat : At(t, p, i)
    BY <2>1, <2>2, <2>4, <2>5, <1>5 DEF At
  <2> QED
    BY <2>2, <2>3, <2>6
<1>8. queued \subseteq 1..Len(log)
  BY <1>5
<1> HIDE DEF queued
<1>9. \A i \in 1..Len(log) : Coming(Mine', posts, i) <=> i \in posts \cup queued
  BY <1>7 DEF Coming
<1>10. "stale" \notin windows' => \A k \in 1..Len(log) : ~Coming(Mine', posts, k) => k <= Len(E)
  <2> SUFFICES ASSUME "stale" \notin windows', NEW k \in 1..Len(log), ~Coming(Mine', posts, k),
                      ~(k <= Len(E))
               PROVE  FALSE
    OBVIOUS
  <2>1. k \in (Len(E) + 1)..Len(log)
    BY <1>4, <1>5
  <2> QED
    BY <2>1, <1>2, <1>9
<1>11. /\ HeardOnce'
       /\ (windows \cap {"missed", "overtaken"} \subseteq windows' => InOrder')
  BY PoppedQueue
<1>12. InOrder'
  <2>1. CASE queued = {}
    <3>1. \A p, i \in Nat : ~At(Mine'.queue, p, i)
      BY <2>1, <1>3, <1>7, <1>11 DEF HeardOnce
    <3> QED
      BY <3>1 DEF InOrder
  <2> QED
    BY <2>1, <1>2, <1>11
<1>13. PageOK
  BY DEF IndInv
<1>14. PageOK'
  <2>1. Replay(E) \subseteq Stroke
    BY <1>4, <1>5, ReplayFacts
  <2>2. \A s \in pending' \cap Stroke : Known(Draw(s, userId), used, undone)
    BY <1>2, <1>13 DEF PageOK, Known, Draw, Entry
  <2>3. \A m \in inFlight' : Known(m, used, undone)
    BY <2>2, <1>2, <1>13 DEF PageOK
  <2> QED
    BY <2>1, <2>3, <1>2, <1>3, <1>13 DEF PageOK
<1>15. Stacked' /\ UndoStackDistinct'
  BY <1>2, <1>3, <1>6 DEF IndInv, Stacked, UndoStackDistinct
<1>16. \A x : x \in Drawn(E) => \E k \in 1..Len(E) : DrawnAt(log, k, x) /\ k \in 1..Len(log)
  BY <1>4, <1>5, ReplayFacts DEF DrawnAt
<1>17. Recoverable'
  <2> SUFFICES ASSUME NEW x \in used, x \notin pending', x \notin undone
               PROVE  \E j \in 1..Len(log) :
                        DrawnAt(log, j, x) /\ (~Coming(Mine', posts, j) \/ Ahead(Mine', j))
    BY <1>2, <1>3 DEF Recoverable
  <2>1. PICK j \in 1..Len(log) : DrawnAt(log, j, x)
    <3>1. CASE x \in pending
      BY <3>1, <1>2, <1>16
    <3>2. CASE x \notin pending
      BY <3>2 DEF IndInv, Recoverable
    <3> QED
      BY <3>1, <3>2
  <2>2. Ahead(Mine', j)
    BY <1>4, <1>5
  <2> QED
    BY <2>1, <2>2
<1>18. OwnStrokesStay'
  <2> SUFFICES ASSUME "stale" \notin windows', NEW x \in used, x \notin pending', x \notin undone
               PROVE  x \in Replay(E)
    BY <1>2 DEF OwnStrokesStay
  <2>1. PICK k \in 1..Len(E) : DrawnAt(log, k, x) /\ k \in 1..Len(log)
    <3>1. CASE x \in pending
      BY <3>1, <1>2, <1>16
    <3>2. CASE x \notin pending
      <4>1. PICK j \in 1..Len(log) :
              DrawnAt(log, j, x) /\ (~Coming(Mine, posts, j) \/ Ahead(Mine, j))
        BY <3>2 DEF IndInv, Recoverable
      <4>2. j <= Len(E) /\ j \in Nat
        BY <4>1, <1>4, <1>5, <1>6, <1>10
      <4>3. j \in 1..Len(E)
        BY <4>2, <1>4, <1>5
      <4> QED
        BY <4>1, <4>3
    <3> QED
      BY <3>1, <3>2
  <2>2. E[k].op = "draw" /\ E[k].id = x
    BY <2>1, <1>4 DEF DrawnAt
  <2>3. Latest(E, k)
    <3> SUFFICES ASSUME NEW l \in (k + 1)..Len(E), E[l].id = x PROVE FALSE
      BY <2>2 DEF Latest
    <3>1. l \in 1..Len(E) /\ l \in 1..Len(log) /\ log[l].id = x /\ l # k
      BY <1>4, <1>5
    <3>2. CASE log[l].op = "draw"
      <4>1. DrawnAt(log, l, x) /\ x \in Stroke
        BY <3>1, <3>2, <1>5 DEF DrawnAt
      <4> QED
        BY <4>1, <2>1, <3>1 DEF IndInv, DrawsOnce
    <3>3. CASE log[l].op = "undo"
      BY <3>1, <3>3, <1>13 DEF PageOK, Known
    <3> QED
      BY <3>1, <3>2, <3>3, <1>5
  <2> QED
    BY <2>2, <2>3, <1>4, ReplayFacts
<1>19. Shown'
  <2> SUFFICES ASSUME windows' = {} PROVE Shown'
    BY DEF Shown
  <2>1. \A k \in 1..Len(log) : ~Coming(Mine', posts, k) => k \in 1..Len(E) /\ E[k] = log[k]
    <3>1. \A k \in 1..Len(log) : ~Coming(Mine', posts, k) => k <= Len(E)
      BY <1>10
    <3> QED
      BY <3>1, <1>4, <1>5
  <2>2. ASSUME NEW k \in 1..Len(log), ~Coming(Mine', posts, k), Latest(log, k)
        PROVE  /\ log[k].op = "draw" => log[k].id \in Replay(E)
               /\ log[k].op = "undo" => log[k].id \notin Replay(E)
    <3>1. k \in 1..Len(E) /\ E[k] = log[k]
      BY <2>1, <2>2
    <3>2. Latest(E, k)
      BY <3>1, <2>2, <1>4, <1>5 DEF Latest
    <3>3. log[k].op = "draw" => log[k].id \in Replay(E)
      BY <3>1, <3>2, <1>4, ReplayFacts
    <3>4. ASSUME log[k].op = "undo", log[k].id \in Replay(E) PROVE FALSE
      <4>1. PICK j \in 1..Len(E) : E[j].op = "draw" /\ E[j].id = log[k].id /\ Latest(E, j)
        BY <3>4, <1>4, ReplayFacts
      <4>2. j # k
        BY <4>1, <3>1, <3>4
      <4>3. CASE j < k
        BY <4>1, <4>3, <3>1, <1>4 DEF Latest
      <4>4. CASE j > k
        BY <4>1, <4>4, <3>1, <3>2, <1>4 DEF Latest
      <4> QED
        BY <4>2, <4>3, <4>4, <1>4
    <3> QED
      BY <3>3, <3>4
  <2>3. \A x \in Replay(E) : \E k \in 1..Len(log) : log[k].id = x
    <3> SUFFICES ASSUME NEW x \in Replay(E) PROVE \E k \in 1..Len(log) : log[k].id = x
      OBVIOUS
    <3>1. PICK j \in 1..Len(E) : E[j].id = x
      BY <1>4, ReplayFacts
    <3> QED
      BY <3>1, <1>4, <1>5
  <2>4. \A k \in 1..Len(log) : log[k].op = "draw" /\ log[k].id \in pending' => Coming(Mine', posts, k)
    <3> SUFFICES ASSUME NEW k \in 1..Len(log), log[k].op = "draw", ~Coming(Mine', posts, k)
                 PROVE  log[k].id \notin pending'
      OBVIOUS
    <3>1. log[k].id \in Drawn(E)
      BY <2>1, <1>4, ReplayFacts
    <3> QED
      BY <3>1, <1>2
  <2> QED
    BY <2>2, <2>3, <2>4, <1>2, <1>3 DEF Shown
<1> QED
  BY <1>3, <1>11, <1>12, <1>14, <1>15, <1>17, <1>18, <1>19 DEF IndInv

LEMMA ReceiveStep == ASSUME IndInv, Receive PROVE IndInv'
<1>1. Popped
  BY DEF Receive, Popped
<1>2. CASE Message.type = "user" /\ UserAssigned
  BY <1>1, <1>2, UserAssignedStep
<1>3. CASE Message.type = "entry" /\ StrokeCommitted(log[Message.index])
  BY <1>1, <1>3, StrokeCommittedStep
<1>4. CASE Message.type = "entry" /\ UndoCompensation(log[Message.index])
  BY <1>1, <1>4, UndoCompensationStep
<1>5. CASE Message.type = "sync" /\ CanvasSynced(Message.entries)
  BY <1>1, <1>5, CanvasSyncedStep
<1> QED
  BY <1>2, <1>3, <1>4, <1>5 DEF Receive

(***************************************************************************)
(* The theorems.                                                           *)
(***************************************************************************)

LEMMA InitInv == ASSUME Init PROVE IndInv
<1>1. /\ log = <<>> /\ posts = {} /\ inFlight = {} /\ conn = 0
      /\ hub = [c \in Conn |-> Unused] /\ panicked = "no" /\ committed = {} /\ pending = {}
      /\ undoStack = <<>> /\ redoStack = <<>> /\ userId = 0 /\ used = {} /\ synced = FALSE
      /\ redone = {} /\ undone = {} /\ windows = {}
  BY DEF Init
<1>2. Unused \in Connection /\ log \in Seq(Entry) /\ Len(log) = 0
  <2>1. <<>> \in Seq(Msg) /\ <<>> \in Seq(Entry) /\ <<>> \in Seq(Stroke)
    OBVIOUS
  <2> QED
    BY <2>1, <1>1 DEF Unused, Connection
<1>3. Fits(Unused, log)
  BY <1>2, UnusedFacts, EmptySeq DEF Fits
<1>4. HubOK
  BY <1>1, <1>2, <1>3, UnusedFacts, LimitAssumption DEF HubOK
<1>5. Mine.queue = <<>> /\ ~Mine.up
  BY <1>1, UnusedFacts DEF Mine
<1>6. \A p, i \in Nat : ~At(Mine.queue, p, i)
  BY <1>5, EmptySeq DEF At
<1>7. PageOK
  <2>1. <<>> \in Seq(Stroke) /\ Len(undoStack) = 0
    BY <1>1
  <2> QED
    BY <2>1, <1>1, <1>2 DEF PageOK
<1>8. HeardOnce /\ InOrder /\ Shown
  BY <1>5, <1>6 DEF HeardOnce, InOrder, Shown
<1>9. DrawsOnce /\ Stacked /\ Recoverable /\ OwnStrokesStay /\ UndoStackDistinct
  BY <1>1, <1>2 DEF DrawsOnce, Stacked, Recoverable, OwnStrokesStay, UndoStackDistinct
<1> QED
  BY <1>4, <1>7, <1>8, <1>9 DEF IndInv

LEMMA StutterStep == ASSUME IndInv, UNCHANGED vars PROVE IndInv'
<1>1. /\ log' = log /\ posts' = posts /\ inFlight' = inFlight /\ conn' = conn /\ hub' = hub
      /\ panicked' = panicked /\ committed' = committed /\ pending' = pending
      /\ undoStack' = undoStack /\ redoStack' = redoStack /\ userId' = userId /\ used' = used
      /\ synced' = synced /\ redone' = redone /\ undone' = undone /\ windows' = windows
  BY DEF vars, logVars, hubVars, stackVars, pageVars
<1>2. Mine' = Mine
  BY <1>1 DEF Mine
<1> QED
  BY <1>1, <1>2 DEF IndInv, HubOK, PageOK, DrawsOnce, HeardOnce, Stacked, UndoStackDistinct,
                    Recoverable, OwnStrokesStay, InOrder, Shown

LEMMA NextInv == ASSUME IndInv, Next PROVE IndInv'
BY MouseUpStep, OnRedoStep, OnUndoStep, CommitStep, LoseStep, BroadcastStep, ConnectStep, BreakStep,
   ReceiveStep, UnregisterStep, CloseSendStep, FetchStep, SendSyncStep DEF Next

(* The invariant holds of every reachable state.                            *)
THEOREM Inductive == Spec => []IndInv
<1>1. Init => IndInv
  BY InitInv
<1>2. IndInv /\ [Next]_vars => IndInv'
  BY NextInv, StutterStep
<1> QED
  BY <1>1, <1>2, PTL DEF Spec

(* A broadcast never sends on the closed channel of a connection, however   *)
(* readPump's unregistration and the broadcasts interleave.                 *)
THEOREM BroadcastsAreSafe == Spec => []BroadcastNeverPanics
<1>1. IndInv => BroadcastNeverPanics
  BY DEF IndInv, HubOK, BroadcastNeverPanics
<1> QED
  BY <1>1, Inductive, PTL

(* A stroke is on the undo stack twice only if it came from a redo: the     *)
(* browser hears of each commit once, and never stacks from a CANVAS_SYNC.  *)
THEOREM UndoStackStaysDistinct == Spec => []UndoStackDistinct
<1>1. IndInv => UndoStackDistinct
  BY DEF IndInv
<1> QED
  BY <1>1, Inductive, PTL

(* A stroke that the user drew stays on the canvas until it is undone, for  *)
(* any number of reconnections, unless a stale CANVAS_SYNC hides it.        *)
THEOREM OwnStrokesAlwaysStay == Spec => []OwnStrokesStay
<1>1. IndInv => OwnStrokesStay
  BY DEF IndInv
<1> QED
  BY <1>1, Inductive, PTL

(* When nothing is under way, and no window was met since the last sync,    *)
(* the canvas shows what a replay of the committed log shows.               *)
THEOREM CanvasConverges == Spec => []Converged
<1>1. IndInv => Converged
  <2> SUFFICES ASSUME IndInv, Quiet, windows = {}
               PROVE  committed = Replay(log) /\ pending \cap Drawn(log) = {}
    BY DEF Converged
  <2>1. Mine.up /\ synced /\ Mine.queue = <<>> /\ posts = {} /\ inFlight = {}
    BY MineFacts DEF IndInv, Quiet, Up
  <2>2. \A k : ~Coming(Mine, posts, k)
    BY <2>1, EmptySeq DEF Coming, At
  <2>3. \A x : ~UndoSent(inFlight, x)
    BY <2>1 DEF UndoSent
  <2>4. /\ \A k \in 1..Len(log) : Latest(log, k) =>
             /\ log[k].op = "draw" => log[k].id \in committed
             /\ log[k].op = "undo" => log[k].id \notin committed
        /\ \A x \in committed : \E k \in 1..Len(log) : log[k].id = x
        /\ \A k \in 1..Len(log) : log[k].op = "draw" => log[k].id \notin pending
    BY <2>1, <2>2, <2>3 DEF IndInv, Shown
  <2>5. /\ log \in Seq(Entry) /\ Len(log) \in Nat
        /\ \A k \in 1..Len(log) : log[k].op \in {"draw", "undo"}
    BY LogFacts DEF IndInv
  <2>6. \A x : x \in Replay(log) => x \in committed
    BY <2>4, <2>5, ReplayFacts
  <2>7. \A x \in committed : x \in Replay(log)
    <3> SUFFICES ASSUME NEW x \in committed PROVE x \in Replay(log)
      OBVIOUS
    <3>1. \E k \in 1..Len(log) : log[k].id = x
      BY <2>4
    <3>2. PICK k \in 1..Len(log) : log[k].id = x /\ Latest(log, k)
      <4> DEFINE S == {j \in 1..Len(log) : log[j].id = x}
      <4>1. S \in SUBSET (0..Len(log)) /\ S # {}
        BY <3>1, <2>5
      <4>2. PICK j \in S : \A l \in S : l <= j
        BY <4>1, <2>5, GreatestBelow
      <4>3. j \in 1..Len(log) /\ \A l \in 1..Len(log) : log[l].id = x => l <= j
        BY <4>2
      <4> QED
        BY <4>2, <4>3, <2>5 DEF Latest
    <3>3. log[k].op = "draw"
      BY <3>2, <2>4, <2>5
    <3> QED
      BY <3>2, <3>3, <2>5, ReplayFacts
  <2>8. \A x \in Drawn(log) : x \notin pending
    BY <2>4, <2>5, ReplayFacts
  <2> QED
    BY <2>6, <2>7, <2>8
<1> QED
  BY <1>1, Inductive, PTL

============================================================================
